---- MODULE Spec2Model ----
(***************************************************************************)
(* examaxis-server: the authentication and session lifecycle.             *)
(*                                                                         *)
(* Every request handler is a process that runs from one await to the     *)
(* next; the storage calls of prisma are the atomic steps, and the        *)
(* handlers of different requests interleave at these steps.  Time is a    *)
(* discrete clock: one tick is the unit in which every lifetime of the     *)
(* configuration is counted.                                               *)
(***************************************************************************)
EXTENDS Integers, FiniteSets, Sequences, TLC

VARIABLES
    users,      \* the users collection: user id -> document
    sessions,   \* the sessions collection: a set of documents
    now,        \* the clock read by currentDate()
    procs,      \* the request handlers: position and locals of each
    nextToken,  \* the next value generateRandomString() returns
    issued,     \* history: the token pairs handed to clients
    revoked,    \* history: refresh tokens whose session was deleted, and by what
    mailbox,    \* history: the reset tokens delivered by email
    budget,     \* requests the clients may still send
    serial,     \* TRUE: clients send one request at a time
    loginStore  \* the records of the in-memory login store, one per code

vars == <<users, sessions, now, procs, nextToken, issued, revoked, mailbox,
          budget, serial, loginStore>>

----------------------------------------------------------------------------
(* Bounds of the model and values of the configuration.                    *)

MaxTime == 2
MaxRequests == 3
MaxRequestsSerial == 7
MaxAccountRequests == 2

jwtExpiresIn == 1
verificationExpires == 2
refreshExpiresIn == 1
loginLockTime == 1
loginCodeExpiry == 1
resetExpires == 1
maxLoginAttempts == 5

Procs == {"p1", "p2"}
UserIds == {"u1", "u2"}
Passwords == {"pw1", "pw2"}

Phones == {"p1", "p2"}

\* the ids the storage gives to the documents it creates, by creation
NewIds == <<"n1", "n2", "n3", "n4", "n5", "n6", "n7", "n8", "n9", "n10",
            "n11", "n12">>

NoTime == -1
NoHash == <<>>
NoToken == 0
NoCode == 0

----------------------------------------------------------------------------
(* Helpers: crypto, jwt, user.                                             *)

\* sha256 of a random string: deterministic and injective on the tokens
hashData(data) == <<"sha256", data>>

\* bcrypt: the hash determines the password it was made from
hashPassword(password) == <<"bcrypt", password>>

comparePassword(hash, input) ==
    IF hash = NoHash THEN FALSE ELSE hash = <<"bcrypt", input>>

\* a lock check that trusts the stored flag alone
isAccountLockedFlagOnly(user, t) == user.lockoutInfo.isLocked

isAccountLocked(user, t) ==
    /\ user.lockoutInfo.isLocked
    /\ user.lockoutInfo.lockedUntil # NoTime
    /\ user.lockoutInfo.lockedUntil > t

generateAccessToken(user, t) ==
    [userId |-> user.id, email |-> user.email, exp |-> t + jwtExpiresIn,
     signed |-> TRUE]


\* a token no key of the server signed
ForgedAccessToken ==
    [userId |-> "u1", email |-> "a@x", exp |-> MaxTime + jwtExpiresIn + 1,
     signed |-> FALSE]

----------------------------------------------------------------------------
(* Results of a request: the success response or the error thrown.         *)

NoResult == [ok |-> FALSE, code |-> "", msg |-> "", isOperational |-> FALSE]

Success(msg) == [ok |-> TRUE, code |-> "200", msg |-> msg, isOperational |-> FALSE]

throwError(message, code) ==
    [ok |-> FALSE, code |-> code, msg |-> message, isOperational |-> TRUE]

\* the error prisma throws when update or delete finds no record
RecordNotFound ==
    [ok |-> FALSE, code |-> "P2025", msg |-> "Record not found",
     isOperational |-> FALSE]

\* the error prisma throws when create or update breaks a unique index
UniqueViolation ==
    [ok |-> FALSE, code |-> "P2002", msg |-> "Unique constraint failed",
     isOperational |-> FALSE]

\* the error refreshAccessToken throws for a token without an active session
InvalidOrExpiredToken == throwError("Invalid or expired refresh token", "500")

----------------------------------------------------------------------------
(* Documents.                                                              *)

NoUser ==
    [id |-> "none", email |-> "none", phone |-> "none",
     emailInfo |-> [isVerified |-> FALSE, verificationToken |-> NoHash,
                    verificationExpires |-> NoTime, pendingEmail |-> "none",
                    provider |-> "none"],
     passwordInfo |-> [hash |-> NoHash, resetToken |-> NoHash,
                       resetExpires |-> NoTime],
     lockoutInfo |-> [isLocked |-> FALSE, lockedUntil |-> NoTime,
                      failedAttemptCount |-> 0],
     lastLoginAt |-> NoTime]

\* a registered account whose email is verified or not
LocalUser(id, email, password, verified) ==
    [NoUser EXCEPT !.id = id, !.email = email,
                   !.emailInfo.isVerified = verified,
                   !.passwordInfo.hash = hashPassword(password)]

\* an account createOAuthUser made: verified, a provider, no password
OAuthUser(id, email, provider) ==
    [NoUser EXCEPT !.id = id, !.email = email,
                   !.emailInfo.isVerified = TRUE,
                   !.emailInfo.provider = provider,
                   !.lastLoginAt = 0]

\* handleGithubAuth's locals: the profile has a display name or a username,
\* the answer of the email API was ok, the list it carried
NoGithub == [named |-> FALSE, ok |-> FALSE, emails |-> <<>>]

IdleProc ==
    [op |-> "idle", pc |-> "idle", rt |-> NoToken, at |-> ForgedAccessToken,
     email |-> "none", password |-> "none", token |-> NoToken,
     phone |-> "none", provider |-> "none", other |-> "none",
     code |-> NoCode, github |-> NoGithub,
     user |-> NoUser, found |-> FALSE, res |-> NoResult]

\* a handler that answered keeps the request and the answer, and no locals
Done(proc, result) ==
    [proc EXCEPT !.pc = "done", !.res = result, !.user = NoUser,
                 !.at = ForgedAccessToken, !.other = "none"]

\* jwt.verify: the signature (with issuer, audience, algorithm), then the expiry
verifyAccessToken(token, t) ==
    IF ~token.signed THEN throwError("Invalid access token", "401")
    ELSE IF token.exp <= t THEN throwError("Access token has expired", "401")
    ELSE Success("payload")

----------------------------------------------------------------------------
(* SessionService: the storage calls on the sessions collection.           *)

\* prisma.session.findFirst where refreshToken = hash and expiresAt > now
findActiveSession(ss, refreshToken, t) ==
    {s \in ss : s.refreshToken = hashData(refreshToken) /\ s.expiresAt > t}

createSession(user, refreshToken, t) ==
    [refreshToken |-> hashData(refreshToken), userId |-> user.id,
     expiresAt |-> t + refreshExpiresIn]

\* a delete that does not throw when no record matches (deleteMany)
revokeRefreshTokenMany(ss, refreshToken) ==
    [threw |-> FALSE,
     sessions |-> {s \in ss : s.refreshToken # hashData(refreshToken)}]

\* a rotation that leaves the old session in place
revokeRefreshTokenKeep(ss, refreshToken) ==
    [threw |-> \A s \in ss : s.refreshToken # hashData(refreshToken),
     sessions |-> ss]

\* prisma.session.delete where refreshToken = hash: the record is deleted,
\* or the call throws when there is none
revokeRefreshToken(ss, refreshToken) ==
    [threw |-> \A s \in ss : s.refreshToken # hashData(refreshToken),
     sessions |-> {s \in ss : s.refreshToken # hashData(refreshToken)}]

\* a deleteMany that matches no session
revokeAllUserSessionsNone(ss, userId) == ss

\* what prisma.session.deleteMany where userId leaves of the collection
revokeAllUserSessions(ss, userId) == {s \in ss : s.userId # userId}

\* the token pair a client receives: generateTokenPair's result, with the
\* token it replaces (history)
TokenPair(user, refreshToken, parent, t) ==
    [accessToken |-> generateAccessToken(user, t), refreshToken |-> refreshToken,
     userId |-> user.id, parent |-> parent]

\* history: the plaintext tokens of the sessions a call deleted
RevokedBy(deleted, by) ==
    {[rt |-> i.refreshToken, by |-> by] :
        i \in {j \in issued : \E s \in deleted : s.refreshToken = hashData(j.refreshToken)}}

\* what a client can put in the headers
RefreshTokens == {i.refreshToken : i \in issued} \cup {NoToken}
AccessTokens == {i.accessToken : i \in issued} \cup {ForgedAccessToken}

----------------------------------------------------------------------------
(* Requests.                                                               *)

Free(p) ==
    /\ budget > 0
    /\ procs[p].pc \in {"idle", "done"}
    /\ serial => \A q \in Procs : procs[q].pc \in {"idle", "done"}

Begin(p, proc) ==
    /\ procs' = [procs EXCEPT ![p] = proc]
    /\ budget' = budget - 1

Tick ==
    /\ now < MaxTime
    /\ now' = now + 1
    /\ UNCHANGED <<users, sessions, procs, nextToken, issued, revoked, mailbox,
                   budget, serial, loginStore>>

----------------------------------------------------------------------------
(* POST /refresh: refreshToken -> refreshAccessToken.                      *)

StartRefresh(p) ==
    /\ Free(p)
    /\ \E rt \in RefreshTokens :
          Begin(p, [IdleProc EXCEPT !.op = "refresh", !.pc = "refreshFind",
                                    !.rt = rt])
    /\ UNCHANGED <<users, sessions, now, nextToken, issued, revoked, mailbox,
                   serial, loginStore>>

\* prisma.session.findFirst include user, and the two checks after it
RefreshFind(p) ==
    /\ procs[p].pc = "refreshFind"
    /\ LET found == findActiveSession(sessions, procs[p].rt, now)
       IN  IF found = {}
           THEN procs' = [procs EXCEPT ![p] = Done(@, InvalidOrExpiredToken)]
           ELSE LET s == CHOOSE x \in found : TRUE
                IN  IF s.userId \notin DOMAIN users
                    THEN procs' = [procs EXCEPT ![p] =
                                     Done(@, throwError("User not found", "500"))]
                    ELSE procs' = [procs EXCEPT ![p] =
                                     [@ EXCEPT !.pc = "refreshRevoke",
                                               !.found = TRUE,
                                               !.user = users[s.userId]]]
    /\ UNCHANGED <<users, sessions, now, nextToken, issued, revoked, mailbox,
                   budget, serial, loginStore>>

\* revokeRefreshToken: prisma.session.delete throws when no record matches
RefreshRevoke(p) ==
    /\ procs[p].pc = "refreshRevoke"
    /\ LET del == revokeRefreshToken(sessions, procs[p].rt)
       IN  /\ sessions' = del.sessions
           /\ revoked' = revoked \cup RevokedBy(sessions \ del.sessions, "rotate")
           /\ procs' = [procs EXCEPT ![p] =
                          IF del.threw THEN Done(@, RecordNotFound)
                          ELSE [@ EXCEPT !.pc = "refreshCreate"]]
    /\ UNCHANGED <<users, now, nextToken, issued, mailbox, budget, serial, loginStore>>

\* generateTokenPair(session.user): createSession and the new access token
RefreshCreate(p) ==
    /\ procs[p].pc = "refreshCreate"
    /\ sessions' = sessions \cup {createSession(procs[p].user, nextToken, now)}
    /\ issued' = issued \cup
                   {TokenPair(procs[p].user, nextToken, procs[p].rt, now)}
    /\ nextToken' = nextToken + 1
    /\ procs' = [procs EXCEPT ![p] = Done(@, Success("Token refreshed successfully"))]
    /\ UNCHANGED <<users, now, revoked, mailbox, budget, serial, loginStore>>

----------------------------------------------------------------------------
(* The protected routes: authenticate, then getProfile, logout, logoutAll. *)

\* the request arrives; authenticate verifies the access token at once
StartProtected(p) ==
    /\ Free(p)
    /\ \E at \in AccessTokens, rt \in RefreshTokens :
          LET payload == verifyAccessToken(at, now)
              proc == [IdleProc EXCEPT !.op = "protected", !.at = at, !.rt = rt,
                                       !.pc = "authFindSession"]
          IN  Begin(p, IF payload.ok THEN proc ELSE Done(proc, payload))
    /\ UNCHANGED <<users, sessions, now, nextToken, issued, revoked, mailbox,
                   serial, loginStore>>

\* an authenticate that trusts the access token alone
AuthSkipSession(p) ==
    /\ procs[p].pc = "authFindSession"
    /\ procs' = [procs EXCEPT ![p] = [@ EXCEPT !.pc = "authFindUser"]]
    /\ UNCHANGED <<users, sessions, now, nextToken, issued, revoked, mailbox,
                   budget, serial, loginStore>>

\* authenticate: prisma.session.findFirst for the presented refresh token
AuthFindSession(p) ==
    /\ procs[p].pc = "authFindSession"
    /\ procs' = [procs EXCEPT ![p] =
                   IF findActiveSession(sessions, procs[p].rt, now) = {}
                   THEN Done(@, throwError("Invalid or expired refresh token", "401"))
                   ELSE [@ EXCEPT !.pc = "authFindUser", !.found = TRUE]]
    /\ UNCHANGED <<users, sessions, now, nextToken, issued, revoked, mailbox,
                   budget, serial, loginStore>>

\* authenticate: prisma.user.findUnique by payload.userId, the lock check,
\* next(); the route of the request (it had it from the start, and nothing
\* read it before) is getProfile, which answers without another storage
\* call, or logout, or logoutAll; a PUT /profile goes on to updateProfile
AuthFindUser(p) ==
    /\ procs[p].pc = "authFindUser"
    /\ LET id == procs[p].at.userId
       IN  \E route \in IF procs[p].op = "protected"
                        THEN {"getProfile", "logout", "logoutAll"}
                        ELSE {procs[p].op} :
             procs' = [procs EXCEPT ![p] =
               IF id \notin DOMAIN users
               THEN Done(@, throwError("User not found", "401"))
               ELSE IF isAccountLocked(users[id], now)
               THEN Done(@, throwError(
                       "Account is locked due to multiple failed login attempts", "423"))
               ELSE IF route = "getProfile"
               THEN Done([@ EXCEPT !.op = route],
                         Success("Profile retrieved successfully"))
               ELSE [@ EXCEPT !.op = route, !.pc = route, !.user = users[id]]]
    /\ UNCHANGED <<users, sessions, now, nextToken, issued, revoked, mailbox,
                   budget, serial, loginStore>>

\* logout: revokeRefreshToken when the x-refresh-token header is there (behind
\* tokenHeaderSchema it always is), else revokeAllUserSessions(req.user.id)
Logout(p) ==
    /\ procs[p].pc = "logout"
    /\ IF procs[p].rt # NoToken
       THEN LET del == revokeRefreshToken(sessions, procs[p].rt)
            IN  /\ sessions' = del.sessions
                /\ revoked' = revoked \cup
                                RevokedBy(sessions \ del.sessions, "logout")
                /\ procs' = [procs EXCEPT ![p] =
                               Done(@, IF del.threw THEN RecordNotFound
                                       ELSE Success("Logout successful"))]
       ELSE LET left == revokeAllUserSessions(sessions, procs[p].user.id)
            IN  /\ sessions' = left
                /\ revoked' = revoked \cup RevokedBy(sessions \ left, "logout")
                /\ procs' = [procs EXCEPT ![p] =
                               Done(@, Success("Logout successful"))]
    /\ UNCHANGED <<users, now, nextToken, issued, mailbox, budget, serial, loginStore>>

\* the handlers logout and logoutAll called with req.user set, and the
\* x-refresh-token header there or not
StartLogout(p) ==
    /\ Free(p)
    /\ \E u \in DOMAIN users, rt \in RefreshTokens,
          route \in {"logout", "logoutAll"} :
          Begin(p, [IdleProc EXCEPT !.op = route, !.pc = route, !.rt = rt,
                                    !.user = users[u]])
    /\ UNCHANGED <<users, sessions, now, nextToken, issued, revoked, mailbox,
                   serial, loginStore>>

LogoutAll(p) ==
    /\ procs[p].pc = "logoutAll"
    /\ LET left == revokeAllUserSessions(sessions, procs[p].user.id)
       IN  /\ sessions' = left
           /\ revoked' = revoked \cup RevokedBy(sessions \ left, "logoutAll")
    /\ procs' = [procs EXCEPT ![p] =
                   Done(@, Success("Logged out from all devices successfully"))]
    /\ UNCHANGED <<users, now, nextToken, issued, mailbox, budget, serial, loginStore>>

----------------------------------------------------------------------------
(* UserService: lockout, login, forgot password, reset password.           *)

Emails == {"a@x", "b@x", "z@x"}

\* prisma.user.findUnique where email
findUserByEmail(us, email) == {id \in DOMAIN us : us[id].email = email}

\* a lock that comes one attempt late
incrementFailedLoginAttemptsLate(user, t) ==
    LET newAttempts == user.lockoutInfo.failedAttemptCount + 1
    IN  [failedAttemptCount |-> newAttempts,
         isLocked |-> newAttempts > maxLoginAttempts,
         lockedUntil |-> IF newAttempts > maxLoginAttempts
                         THEN t + loginLockTime ELSE NoTime]

\* an increment that starts the count again once a lock has expired
incrementFailedLoginAttemptsFresh(user, t) ==
    LET expired == /\ user.lockoutInfo.isLocked
                   /\ user.lockoutInfo.lockedUntil <= t
        newAttempts == IF expired THEN 1
                       ELSE user.lockoutInfo.failedAttemptCount + 1
    IN  [failedAttemptCount |-> newAttempts,
         isLocked |-> newAttempts >= maxLoginAttempts,
         lockedUntil |-> IF newAttempts >= maxLoginAttempts
                         THEN t + loginLockTime ELSE NoTime]

\* the lockoutInfo incrementFailedLoginAttempts writes, from the user it was given
incrementFailedLoginAttempts(user, t) ==
    LET newAttempts == user.lockoutInfo.failedAttemptCount + 1
    IN  [failedAttemptCount |-> newAttempts,
         isLocked |-> newAttempts >= maxLoginAttempts,
         lockedUntil |-> IF newAttempts >= maxLoginAttempts
                         THEN t + loginLockTime ELSE NoTime]

\* the lockoutInfo resetFailedLoginAttempts writes
resetFailedLoginAttempts ==
    [failedAttemptCount |-> 0, isLocked |-> FALSE, lockedUntil |-> NoTime]

\* an authenticateUser that compares the password first
authenticateUserCompareFirst(user, password, t) ==
    IF user.emailInfo.provider # "none" /\ user.passwordInfo.hash = NoHash
    THEN throwError("You signed in with a social account", "403")
    ELSE IF ~comparePassword(user.passwordInfo.hash, password)
    THEN Success("loginIncrement")
    ELSE IF ~user.emailInfo.isVerified
    THEN throwError("Please verify your email before logging in", "403")
    ELSE IF isAccountLocked(user, t)
    THEN throwError("Account is temporarily locked", "423")
    ELSE IF user.lockoutInfo.failedAttemptCount > 0
    THEN Success("loginReset")
    ELSE Success("loginStamp")

\* an authenticateUser without the check of emailInfo.isVerified
authenticateUserUnverified(user, password, t) ==
    IF user.emailInfo.provider # "none" /\ user.passwordInfo.hash = NoHash
    THEN throwError("You signed in with a social account", "403")
    ELSE IF isAccountLocked(user, t)
    THEN throwError("Account is temporarily locked", "423")
    ELSE IF ~comparePassword(user.passwordInfo.hash, password)
    THEN Success("loginIncrement")
    ELSE IF user.lockoutInfo.failedAttemptCount > 0
    THEN Success("loginReset")
    ELSE Success("loginStamp")

\* an authenticateUser without the check for a social account
authenticateUserNoSocial(user, password, t) ==
    IF ~user.emailInfo.isVerified
    THEN throwError("Please verify your email before logging in", "403")
    ELSE IF isAccountLocked(user, t)
    THEN throwError("Account is temporarily locked", "423")
    ELSE IF ~comparePassword(user.passwordInfo.hash, password)
    THEN Success("loginIncrement")
    ELSE IF user.lockoutInfo.failedAttemptCount > 0
    THEN Success("loginReset")
    ELSE Success("loginStamp")

\* authenticateUser from the user it found to the first storage write:
\* the error it throws, or the step it goes to
authenticateUser(user, password, t) ==
    IF user.emailInfo.provider # "none" /\ user.passwordInfo.hash = NoHash
    THEN throwError("You signed in with a social account", "403")
    ELSE IF ~user.emailInfo.isVerified
    THEN throwError("Please verify your email before logging in", "403")
    ELSE IF isAccountLocked(user, t)
    THEN throwError("Account is temporarily locked", "423")
    ELSE IF ~comparePassword(user.passwordInfo.hash, password)
    THEN Success("loginIncrement")
    ELSE IF user.lockoutInfo.failedAttemptCount > 0
    THEN Success("loginReset")
    ELSE Success("loginStamp")

StartLogin(p) ==
    /\ Free(p)
    /\ \E email \in Emails, password \in Passwords :
          Begin(p, [IdleProc EXCEPT !.op = "login", !.pc = "loginFind",
                                    !.email = email, !.password = password])
    /\ UNCHANGED <<users, sessions, now, nextToken, issued, revoked, mailbox,
                   serial, loginStore>>

\* login: authenticateUser up to its first write; a user not found or a
\* password that does not match ends as 401 in the handler
LoginFind(p) ==
    /\ procs[p].pc = "loginFind"
    /\ LET found == findUserByEmail(users, procs[p].email)
       IN  IF found = {}
           THEN procs' = [procs EXCEPT ![p] =
                            Done(@, throwError("Invalid email or password!", "401"))]
           ELSE LET user == users[CHOOSE id \in found : TRUE]
                    next == authenticateUser(user, procs[p].password, now)
                IN  procs' = [procs EXCEPT ![p] =
                                IF next.ok
                                THEN [@ EXCEPT !.pc = next.msg, !.user = user,
                                               !.found = TRUE]
                                ELSE Done([@ EXCEPT !.found = TRUE], next)]
    /\ UNCHANGED <<users, sessions, now, nextToken, issued, revoked, mailbox,
                   budget, serial, loginStore>>

\* the password did not match: incrementFailedLoginAttempts(user), then 401
LoginIncrement(p) ==
    /\ procs[p].pc = "loginIncrement"
    /\ LET user == procs[p].user
       IN  IF user.id \notin DOMAIN users
           THEN /\ procs' = [procs EXCEPT ![p] = Done(@, RecordNotFound)]
                /\ UNCHANGED users
           ELSE /\ users' = [users EXCEPT ![user.id].lockoutInfo =
                                 incrementFailedLoginAttempts(user, now)]
                /\ procs' = [procs EXCEPT ![p] =
                     Done(@, throwError("Invalid email or password!", "401"))]
    /\ UNCHANGED <<sessions, now, nextToken, issued, revoked, mailbox, budget,
                   serial, loginStore>>

\* the password matched and the user read had failed attempts
LoginReset(p) ==
    /\ procs[p].pc = "loginReset"
    /\ LET user == procs[p].user
       IN  IF user.id \notin DOMAIN users
           THEN /\ procs' = [procs EXCEPT ![p] = Done(@, RecordNotFound)]
                /\ UNCHANGED users
           ELSE /\ users' = [users EXCEPT ![user.id].lockoutInfo =
                                 resetFailedLoginAttempts]
                /\ procs' = [procs EXCEPT ![p].pc = "loginStamp"]
    /\ UNCHANGED <<sessions, now, nextToken, issued, revoked, mailbox, budget,
                   serial, loginStore>>

\* prisma.user.update lastLoginAt, and authenticateUser returns isValid
LoginStamp(p) ==
    /\ procs[p].pc = "loginStamp"
    /\ LET user == procs[p].user
       IN  IF user.id \notin DOMAIN users
           THEN /\ procs' = [procs EXCEPT ![p] = Done(@, RecordNotFound)]
                /\ UNCHANGED users
           ELSE /\ users' = [users EXCEPT ![user.id].lastLoginAt = now]
                /\ procs' = [procs EXCEPT ![p].pc = "loginIssue"]
    /\ UNCHANGED <<sessions, now, nextToken, issued, revoked, mailbox, budget,
                   serial, loginStore>>

\* login: generateTokenPair(user)
LoginIssue(p) ==
    /\ procs[p].pc = "loginIssue"
    /\ sessions' = sessions \cup {createSession(procs[p].user, nextToken, now)}
    /\ issued' = issued \cup {TokenPair(procs[p].user, nextToken, NoToken, now)}
    /\ nextToken' = nextToken + 1
    /\ procs' = [procs EXCEPT ![p] = Done(@, Success("Login successful"))]
    /\ UNCHANGED <<users, now, revoked, mailbox, budget, serial, loginStore>>

\* a reset that writes the password and the email composites only
resetPasswordWithTokenStillLocked(doc, newPassword) ==
    [doc EXCEPT
       !.passwordInfo = [doc.passwordInfo EXCEPT
                           !.hash = hashPassword(newPassword),
                           !.resetToken = NoHash, !.resetExpires = NoTime],
       !.emailInfo = IF ~doc.emailInfo.isVerified
                     THEN [doc.emailInfo EXCEPT
                             !.isVerified = TRUE, !.verificationToken = NoHash,
                             !.verificationExpires = NoTime]
                     ELSE doc.emailInfo]

\* the document resetPasswordWithToken writes, from the document it read:
\* the three composites are replaced by what was read, changed
resetPasswordWithToken(doc, newPassword) ==
    [doc EXCEPT
       !.passwordInfo = [doc.passwordInfo EXCEPT
                           !.hash = hashPassword(newPassword),
                           !.resetToken = NoHash, !.resetExpires = NoTime],
       !.lockoutInfo = IF doc.lockoutInfo.isLocked
                       THEN [isLocked |-> FALSE, lockedUntil |-> NoTime,
                             failedAttemptCount |-> 0]
                       ELSE doc.lockoutInfo,
       !.emailInfo = IF ~doc.emailInfo.isVerified
                     THEN [doc.emailInfo EXCEPT
                             !.isVerified = TRUE, !.verificationToken = NoHash,
                             !.verificationExpires = NoTime]
                     ELSE doc.emailInfo]

\* the raw find of resetPasswordWithToken: resetToken = hash, resetExpires > now
findUserByResetToken(us, token, t) ==
    {id \in DOMAIN us : /\ us[id].passwordInfo.resetToken = hashData(token)
                         /\ us[id].passwordInfo.resetExpires > t}

StartForgot(p) ==
    /\ Free(p)
    /\ \E email \in Emails :
          Begin(p, [IdleProc EXCEPT !.op = "forgot", !.pc = "forgotFind",
                                    !.email = email])
    /\ UNCHANGED <<users, sessions, now, nextToken, issued, revoked, mailbox,
                   serial, loginStore>>

\* sendPasswordResetEmail: findUnique; no user, no email, the same answer
ForgotFind(p) ==
    /\ procs[p].pc = "forgotFind"
    /\ LET found == findUserByEmail(users, procs[p].email)
       IN  procs' = [procs EXCEPT ![p] =
             IF found = {}
             THEN Done(@, Success("If an account with that email exists"))
             ELSE [@ EXCEPT !.pc = "forgotUpdate", !.found = TRUE,
                            !.user = users[CHOOSE id \in found : TRUE]]]
    /\ UNCHANGED <<users, sessions, now, nextToken, issued, revoked, mailbox,
                   budget, serial, loginStore>>

\* sendPasswordResetEmail: the update of passwordInfo, then sendEmail, which
\* delivers the token or throws
ForgotUpdate(p) ==
    /\ procs[p].pc = "forgotUpdate"
    /\ LET user == procs[p].user
       IN  IF user.id \notin DOMAIN users
           THEN /\ procs' = [procs EXCEPT ![p] = Done(@, RecordNotFound)]
                /\ UNCHANGED <<users, nextToken, mailbox>>
           ELSE /\ users' = [users EXCEPT ![user.id].passwordInfo =
                                 [user.passwordInfo EXCEPT
                                    !.resetToken = hashData(nextToken),
                                    !.resetExpires = now + resetExpires]]
                /\ nextToken' = nextToken + 1
                /\ \E sent \in BOOLEAN :
                      IF sent
                      THEN /\ mailbox' = mailbox \cup
                                  {[to |-> procs[p].email, token |-> nextToken]}
                           /\ procs' = [procs EXCEPT ![p] = Done(@,
                                  Success("If an account with that email exists"))]
                      ELSE /\ UNCHANGED mailbox
                           /\ procs' = [procs EXCEPT ![p] = Done(@,
                                  throwError("Failed to send email", "500"))]
    /\ UNCHANGED <<sessions, now, issued, revoked, budget, serial, loginStore>>

StartReset(p) ==
    /\ Free(p)
    /\ \E token \in {m.token : m \in mailbox} \cup {NoToken},
          password \in Passwords :
          Begin(p, [IdleProc EXCEPT !.op = "reset", !.pc = "resetFind",
                                    !.token = token, !.password = password])
    /\ UNCHANGED <<users, sessions, now, nextToken, issued, revoked, mailbox,
                   serial, loginStore>>

ResetFind(p) ==
    /\ procs[p].pc = "resetFind"
    /\ LET found == findUserByResetToken(users, procs[p].token, now)
       IN  procs' = [procs EXCEPT ![p] =
             IF found = {}
             THEN Done(@, throwError("Invalid or expired password reset token", "500"))
             ELSE [@ EXCEPT !.pc = "resetUpdate", !.found = TRUE,
                            !.user = users[CHOOSE id \in found : TRUE]]]
    /\ UNCHANGED <<users, sessions, now, nextToken, issued, revoked, mailbox,
                   budget, serial, loginStore>>

\* prisma.user.update with the three composites
ResetUpdate(p) ==
    /\ procs[p].pc = "resetUpdate"
    /\ LET doc == procs[p].user
           new == resetPasswordWithToken(doc, procs[p].password)
       IN  IF doc.id \notin DOMAIN users
           THEN /\ procs' = [procs EXCEPT ![p] = Done(@, RecordNotFound)]
                /\ UNCHANGED users
           ELSE /\ users' = [users EXCEPT ![doc.id] =
                                 [@ EXCEPT !.passwordInfo = new.passwordInfo,
                                           !.lockoutInfo = new.lockoutInfo,
                                           !.emailInfo = new.emailInfo]]
                /\ procs' = [procs EXCEPT ![p].pc = "resetRevoke"]
    /\ UNCHANGED <<sessions, now, nextToken, issued, revoked, mailbox, budget,
                   serial, loginStore>>

\* revokeAllUserSessions(userId), and the handler answers
ResetRevoke(p) ==
    /\ procs[p].pc = "resetRevoke"
    /\ LET left == revokeAllUserSessions(sessions, procs[p].user.id)
       IN  /\ sessions' = left
           /\ revoked' = revoked \cup RevokedBy(sessions \ left, "reset")
    /\ procs' = [procs EXCEPT ![p] = Done(@, Success("Password reset successful"))]
    /\ UNCHANGED <<users, now, nextToken, issued, mailbox, budget, serial, loginStore>>

----------------------------------------------------------------------------
(* Specifications.                                                         *)

\* a registered account, verified or not yet, and an account of a provider;
\* nobody is logged in
InitUsers ==
    users \in {[u \in UserIds |->
                  IF u = "u1" THEN LocalUser("u1", "a@x", "pw1", v)
                  ELSE OAuthUser("u2", "b@x", "google")] : v \in BOOLEAN}

InitLogin ==
    /\ InitUsers
    /\ loginStore = {}
    /\ sessions = {}
    /\ now = 0
    /\ procs = [p \in Procs |-> IdleProc]
    /\ nextToken = 1
    /\ issued = {}
    /\ revoked = {}
    /\ mailbox = {}

LoginStep(p) ==
    \/ StartLogin(p)
    \/ LoginFind(p)
    \/ LoginIncrement(p)
    \/ LoginReset(p)
    \/ LoginStamp(p)
    \/ LoginIssue(p)

ForgotStep(p) ==
    \/ StartForgot(p)
    \/ ForgotFind(p)
    \/ ForgotUpdate(p)

ResetStep(p) ==
    \/ StartReset(p)
    \/ ResetFind(p)
    \/ ResetUpdate(p)
    \/ ResetRevoke(p)

SessionStep(p) ==
    \/ StartRefresh(p)
    \/ RefreshFind(p)
    \/ RefreshRevoke(p)
    \/ RefreshCreate(p)
    \/ StartProtected(p)
    \/ AuthFindSession(p)
    \/ AuthFindUser(p)
    \/ Logout(p)
    \/ LogoutAll(p)

NextLockout == Tick \/ \E p \in Procs : LoginStep(p)

NextLogin ==
    Tick \/ \E p \in Procs : LoginStep(p) \/ ForgotStep(p) \/ ResetStep(p)

NextSession == Tick \/ \E p \in Procs : SessionStep(p) \/ ResetStep(p)

\* at time 0 both accounts have logged in, and the first has asked for a
\* password reset and received the email
InitSession ==
    LET a == [LocalUser("u1", "a@x", "pw1", TRUE) EXCEPT
                !.lastLoginAt = 0,
                !.passwordInfo.resetToken = hashData(3),
                !.passwordInfo.resetExpires = resetExpires]
        b == OAuthUser("u2", "b@x", "google")
    IN  /\ users = [u \in UserIds |-> IF u = "u1" THEN a ELSE b]
        /\ sessions = {createSession(a, 1, 0), createSession(b, 2, 0)}
        /\ issued = {TokenPair(a, 1, NoToken, 0), TokenPair(b, 2, NoToken, 0)}
        /\ mailbox = {[to |-> "a@x", token |-> 3]}
        /\ nextToken = 4
        /\ now = 0
        /\ procs = [p \in Procs |-> IdleProc]
        /\ revoked = {}
        /\ serial = FALSE
        /\ loginStore = {}
        /\ budget = MaxRequests

InitLockout == InitLogin /\ serial = TRUE /\ budget = MaxRequestsSerial

InitLoginConcurrent == InitLogin /\ serial = FALSE /\ budget = MaxRequests

InitLoginSerial == InitLogin /\ serial = TRUE /\ budget = MaxRequests

\* password login, one request at a time
SpecLockout == InitLockout /\ [][NextLockout]_vars

\* password login, forgot and reset password, two requests at a time
SpecLogin == InitLoginConcurrent /\ [][NextLogin]_vars

\* the same requests, one at a time
SpecLoginSerial == InitLoginSerial /\ [][NextLogin]_vars

\* token rotation, the protected routes and password reset, two at a time
SpecSession == InitSession /\ [][NextSession]_vars

\* at time 0 each account has logged in on two devices
InitLogout ==
    LET a == [LocalUser("u1", "a@x", "pw1", TRUE) EXCEPT !.lastLoginAt = 0]
        b == OAuthUser("u2", "b@x", "google")
    IN  /\ users = [u \in UserIds |-> IF u = "u1" THEN a ELSE b]
        /\ sessions = {createSession(a, 1, 0), createSession(a, 2, 0),
                       createSession(b, 3, 0), createSession(b, 4, 0)}
        /\ issued = {TokenPair(a, 1, NoToken, 0), TokenPair(a, 2, NoToken, 0),
                     TokenPair(b, 3, NoToken, 0), TokenPair(b, 4, NoToken, 0)}
        /\ mailbox = {}
        /\ nextToken = 5
        /\ now = 0
        /\ procs = [p \in Procs |-> IdleProc]
        /\ revoked = {}
        /\ serial = FALSE
        /\ loginStore = {}
        /\ budget = MaxRequests

NextLogout ==
    \E p \in Procs :
       \/ StartLogout(p)
       \/ Logout(p)
       \/ LogoutAll(p)
       \/ StartRefresh(p)
       \/ RefreshFind(p)
       \/ RefreshRevoke(p)
       \/ RefreshCreate(p)

\* the logout handlers and token rotation, two at a time
SpecLogout == InitLogout /\ [][NextLogout]_vars

----------------------------------------------------------------------------
(* UserService: register, verify email, update profile; OauthService.      *)

\* a function with one more document, or with a document less
Insert(us, doc) ==
    [id \in DOMAIN us \cup {doc.id} |-> IF id = doc.id THEN doc ELSE us[id]]

Remove(us, ids) == [id \in DOMAIN us \ ids |-> us[id]]

\* the unique indexes of the users collection: email, and phone when set
Conflicts(us, id, email, phone) ==
    \E o \in DOMAIN us \ {id} :
       \/ us[o].email = email
       \/ phone # "none" /\ us[o].phone = phone

\* checkUserExists: the documents prisma.user.findFirst may return for
\* OR [email, phone] and id not userId
checkUserExists(us, email, phone, userId) ==
    {id \in DOMAIN us :
        /\ id # userId
        /\ \/ email # "none" /\ us[id].email = email
           \/ phone # "none" /\ us[id].phone = phone}

\* a delete by id alone
deleteUnverifiedUserById(us, userId) ==
    LET hit == {id \in DOMAIN us : id = userId}
    IN  [threw |-> hit = {}, users |-> Remove(us, hit)]

\* deleteUnverifiedUser: deleteMany where id and isVerified false; it
\* throws when the count is 0
deleteUnverifiedUser(us, userId) ==
    LET hit == {id \in DOMAIN us : id = userId /\ ~us[id].emailInfo.isVerified}
    IN  [threw |-> hit = {}, users |-> Remove(us, hit)]

\* a registration stored as verified
createUserWithVerificationVerified(id, email, phone, password, token, t) ==
    [NoUser EXCEPT !.id = id, !.email = email, !.phone = phone,
                   !.passwordInfo.hash = hashPassword(password),
                   !.emailInfo.isVerified = TRUE,
                   !.emailInfo.verificationToken = hashData(token),
                   !.emailInfo.verificationExpires = t + verificationExpires]

\* the document createUserWithVerification creates
createUserWithVerification(id, email, phone, password, token, t) ==
    [NoUser EXCEPT !.id = id, !.email = email, !.phone = phone,
                   !.passwordInfo.hash = hashPassword(password),
                   !.emailInfo.verificationToken = hashData(token),
                   !.emailInfo.verificationExpires = t + verificationExpires]

\* a provider account whose email is still to be verified
createOAuthUserUnverified(id, email, provider, t) ==
    [OAuthUser(id, email, provider) EXCEPT !.lastLoginAt = t,
                                           !.emailInfo.isVerified = FALSE]

\* the document createOAuthUser creates
createOAuthUser(id, email, provider, t) ==
    [OAuthUser(id, email, provider) EXCEPT !.lastLoginAt = t]

\* what the requests of a client carry
RegisterEmails == {"b@x", "c@x"}
ProfileEmails == {"none", "b@x", "c@x"}
Providers == {"google", "github"}

\* a handler goes to its next await, or answers
Goto(proc, pc, msg) ==
    IF pc = "done" THEN Done(proc, Success(msg)) ELSE [proc EXCEPT !.pc = pc]

StartRegister(p) ==
    /\ Free(p)
    /\ \E email \in RegisterEmails, phone \in {"none", "p1"},
          password \in Passwords :
          Begin(p, [IdleProc EXCEPT !.op = "register", !.pc = "registerCheck",
                                    !.email = email, !.phone = phone,
                                    !.password = password])
    /\ UNCHANGED <<users, sessions, now, nextToken, issued, revoked, mailbox,
                   serial, loginStore>>

\* register: checkUserExists(email, phone); a verified holder is a conflict
RegisterCheck(p) ==
    /\ procs[p].pc = "registerCheck"
    /\ LET found == checkUserExists(users, procs[p].email, procs[p].phone, "none")
       IN  IF found = {}
           THEN procs' = [procs EXCEPT ![p].pc = "registerCreate"]
           ELSE \E id \in found :
                  procs' = [procs EXCEPT ![p] =
                    IF users[id].emailInfo.isVerified
                    THEN Done(@, throwError(
                           IF users[id].email = procs[p].email
                           THEN "User with this email already exists"
                           ELSE "User with this phone number already exists",
                           "409"))
                    ELSE [@ EXCEPT !.pc = "registerDelete", !.found = TRUE,
                                   !.other = id]]
    /\ UNCHANGED <<users, sessions, now, nextToken, issued, revoked, mailbox,
                   budget, serial, loginStore>>

\* register: deleteUnverifiedUser(existingUser.id)
RegisterDelete(p) ==
    /\ procs[p].pc = "registerDelete"
    /\ LET del == deleteUnverifiedUser(users, procs[p].other)
       IN  /\ users' = del.users
           /\ procs' = [procs EXCEPT ![p] =
                IF del.threw
                THEN Done(@, throwError("User not found or already verified", "404"))
                ELSE [@ EXCEPT !.pc = "registerCreate", !.other = "none"]]
    /\ UNCHANGED <<sessions, now, nextToken, issued, revoked, mailbox, budget,
                   serial, loginStore>>

\* a register whose request fails when the verification email cannot be sent
RegisterCreateFatal(p) ==
    /\ procs[p].pc = "registerCreate"
    /\ IF Conflicts(users, "none", procs[p].email, procs[p].phone)
       THEN /\ procs' = [procs EXCEPT ![p] = Done(@, UniqueViolation)]
            /\ UNCHANGED <<users, nextToken, mailbox>>
       ELSE /\ users' = Insert(users, createUserWithVerification(
                           NewIds[nextToken], procs[p].email, procs[p].phone,
                           procs[p].password, nextToken, now))
            /\ nextToken' = nextToken + 1
            /\ \E sent \in BOOLEAN :
                  /\ mailbox' = IF sent
                                THEN mailbox \cup
                                       {[to |-> procs[p].email, token |-> nextToken]}
                                ELSE mailbox
                  /\ procs' = [procs EXCEPT ![p] =
                       Done(@, IF sent
                               THEN Success("User registered successfully")
                               ELSE throwError("Failed to send email", "500"))]
    /\ UNCHANGED <<sessions, now, issued, revoked, budget, serial, loginStore>>

\* register: createUserWithVerification, then the verification email, whose
\* failure is logged and does not fail the request
RegisterCreate(p) ==
    /\ procs[p].pc = "registerCreate"
    /\ IF Conflicts(users, "none", procs[p].email, procs[p].phone)
       THEN /\ procs' = [procs EXCEPT ![p] = Done(@, UniqueViolation)]
            /\ UNCHANGED <<users, nextToken, mailbox>>
       ELSE /\ users' = Insert(users, createUserWithVerification(
                           NewIds[nextToken], procs[p].email, procs[p].phone,
                           procs[p].password, nextToken, now))
            /\ nextToken' = nextToken + 1
            /\ \E sent \in BOOLEAN :
                  mailbox' = IF sent
                             THEN mailbox \cup
                                    {[to |-> procs[p].email, token |-> nextToken]}
                             ELSE mailbox
            /\ procs' = [procs EXCEPT ![p] =
                           Done(@, Success("User registered successfully"))]
    /\ UNCHANGED <<sessions, now, issued, revoked, budget, serial, loginStore>>

\* the raw find of verifyEmailWithToken: verificationToken = hash and
\* verificationExpires > now
findUserByVerificationTokenAny(us, token, t) ==
    {id \in DOMAIN us :
        \/ /\ us[id].emailInfo.verificationToken = hashData(token)
           /\ us[id].emailInfo.verificationExpires > t
        \/ /\ us[id].passwordInfo.resetToken = hashData(token)
           /\ us[id].passwordInfo.resetExpires > t}

findUserByVerificationToken(us, token, t) ==
    {id \in DOMAIN us :
        /\ us[id].emailInfo.verificationToken = hashData(token)
        /\ us[id].emailInfo.verificationExpires > t}

\* the document verifyEmailWithToken writes, from the stored document and
\* the document it read: the email when one is pending, and emailInfo whole
verifyEmailWithTokenKeep(stored, doc) ==
    [stored EXCEPT
       !.email = IF doc.emailInfo.pendingEmail # "none"
                 THEN doc.emailInfo.pendingEmail ELSE @,
       !.emailInfo = [doc.emailInfo EXCEPT !.isVerified = TRUE,
                                           !.pendingEmail = "none"]]

verifyEmailWithToken(stored, doc) ==
    [stored EXCEPT
       !.email = IF doc.emailInfo.pendingEmail # "none"
                 THEN doc.emailInfo.pendingEmail ELSE @,
       !.emailInfo = [isVerified |-> TRUE,
                      provider |-> doc.emailInfo.provider,
                      verificationToken |-> NoHash,
                      verificationExpires |-> NoTime,
                      pendingEmail |-> "none"]]

StartVerify(p) ==
    /\ Free(p)
    /\ \E token \in {m.token : m \in mailbox} \cup {NoToken} :
          Begin(p, [IdleProc EXCEPT !.op = "verify", !.pc = "verifyFind",
                                    !.token = token])
    /\ UNCHANGED <<users, sessions, now, nextToken, issued, revoked, mailbox,
                   serial, loginStore>>

VerifyFind(p) ==
    /\ procs[p].pc = "verifyFind"
    /\ LET found == findUserByVerificationToken(users, procs[p].token, now)
       IN  procs' = [procs EXCEPT ![p] =
             IF found = {}
             THEN Done(@, throwError(
                     "Invalid or expired email verification token", "403"))
             ELSE LET doc == users[CHOOSE id \in found : TRUE]
                  IN  [@ EXCEPT !.found = TRUE, !.user = doc,
                                !.pc = IF doc.emailInfo.pendingEmail # "none"
                                       THEN "verifyTaken" ELSE "verifyUpdate"]]
    /\ UNCHANGED <<users, sessions, now, nextToken, issued, revoked, mailbox,
                   budget, serial, loginStore>>

\* verifyEmailWithToken: is the pending email the email of another account
VerifyTaken(p) ==
    /\ procs[p].pc = "verifyTaken"
    /\ LET doc == procs[p].user
           emailTaken == \E id \in DOMAIN users \ {doc.id} :
                            users[id].email = doc.emailInfo.pendingEmail
       IN  procs' = [procs EXCEPT ![p] =
             IF emailTaken
             THEN Done(@, throwError("Email address is already in use", "409"))
             ELSE [@ EXCEPT !.pc = "verifyUpdate"]]
    /\ UNCHANGED <<users, sessions, now, nextToken, issued, revoked, mailbox,
                   budget, serial, loginStore>>

\* verifyEmailWithToken: prisma.user.update; verifyEmail issues a token
\* pair when the account was not verified before
VerifyUpdate(p) ==
    /\ procs[p].pc = "verifyUpdate"
    /\ LET doc == procs[p].user
           pendingEmail == doc.emailInfo.pendingEmail
       IN  IF doc.id \notin DOMAIN users
           THEN /\ procs' = [procs EXCEPT ![p] = Done(@, RecordNotFound)]
                /\ UNCHANGED users
           ELSE IF /\ pendingEmail # "none"
                   /\ Conflicts(users, doc.id, pendingEmail, "none")
           THEN /\ procs' = [procs EXCEPT ![p] = Done(@, UniqueViolation)]
                /\ UNCHANGED users
           ELSE LET updatedUser == verifyEmailWithToken(users[doc.id], doc)
                IN  /\ users' = [users EXCEPT ![doc.id] = updatedUser]
                    /\ procs' = [procs EXCEPT ![p] =
                         IF ~doc.emailInfo.isVerified
                         THEN [@ EXCEPT !.pc = "verifyIssue",
                                        !.user = updatedUser]
                         ELSE Done(@, Success("Email verified successfully"))]
    /\ UNCHANGED <<sessions, now, nextToken, issued, revoked, mailbox, budget,
                   serial, loginStore>>

\* verifyEmail: generateTokenPair(user) for the newly verified
VerifyIssue(p) ==
    /\ procs[p].pc = "verifyIssue"
    /\ sessions' = sessions \cup {createSession(procs[p].user, nextToken, now)}
    /\ issued' = issued \cup {TokenPair(procs[p].user, nextToken, NoToken, now)}
    /\ nextToken' = nextToken + 1
    /\ procs' = [procs EXCEPT ![p] = Done(@, Success("Email verified successfully"))]
    /\ UNCHANGED <<users, now, revoked, mailbox, budget, serial, loginStore>>

\* PUT /profile: a client sends the token pair it was handed and a body
\* with an email of emails, a password, both or none; authenticate, then
\* updateProfile
StartProfile(p, emails) ==
    /\ Free(p)
    /\ \E i \in issued, email \in emails, password \in {"none", "pw2"} :
          LET payload == verifyAccessToken(i.accessToken, now)
              proc == [IdleProc EXCEPT !.op = "updateProfile",
                                       !.at = i.accessToken,
                                       !.rt = i.refreshToken, !.email = email,
                                       !.password = password,
                                       !.pc = "authFindSession"]
          IN  Begin(p, IF payload.ok THEN proc ELSE Done(proc, payload))
    /\ UNCHANGED <<users, sessions, now, nextToken, issued, revoked, mailbox,
                   serial, loginStore>>

\* updateUserProfile after the check of the email and phone: the update of
\* the pending email when the email differs, then the other fields
AfterCheck(proc) ==
    IF proc.email # "none" /\ proc.email # proc.user.email THEN "profileEmail"
    ELSE IF proc.password # "none" THEN "profileUpdate"
    ELSE "done"

AfterEmail(proc) == IF proc.password # "none" THEN "profileUpdate" ELSE "done"

\* updateUserProfile: checkUserExists(email, phone, user.id)
ProfileCheck(p) ==
    /\ procs[p].pc = "updateProfile"
    /\ LET found == checkUserExists(users, procs[p].email, procs[p].phone,
                                    procs[p].user.id)
       IN  IF found = {}
           THEN procs' = [procs EXCEPT ![p] =
                  Goto(@, AfterCheck(@), "Profile updated successfully")]
           ELSE \E id \in found :
                  procs' = [procs EXCEPT ![p] =
                    IF users[id].emailInfo.isVerified
                    THEN Done(@, throwError(
                           IF users[id].email = procs[p].email
                           THEN "Email is already taken"
                           ELSE "Phone number is already taken", "409"))
                    ELSE [@ EXCEPT !.pc = "profileDelete", !.other = id]]
    /\ UNCHANGED <<users, sessions, now, nextToken, issued, revoked, mailbox,
                   budget, serial, loginStore>>

\* updateUserProfile: deleteUnverifiedUser(existingUser.id)
ProfileDelete(p) ==
    /\ procs[p].pc = "profileDelete"
    /\ LET del == deleteUnverifiedUser(users, procs[p].other)
       IN  /\ users' = del.users
           /\ procs' = [procs EXCEPT ![p] =
                IF del.threw
                THEN Done(@, throwError("User not found or already verified", "404"))
                ELSE Goto([@ EXCEPT !.other = "none"], AfterCheck(@),
                          "Profile updated successfully")]
    /\ UNCHANGED <<sessions, now, nextToken, issued, revoked, mailbox, budget,
                   serial, loginStore>>

\* the emailInfo the rollback of updateUserProfile writes
rollbackPendingEmailKeep(emailInfo) ==
    [emailInfo EXCEPT !.verificationToken = NoHash,
                      !.verificationExpires = NoTime]

rollbackPendingEmail(emailInfo) ==
    [emailInfo EXCEPT !.pendingEmail = "none", !.verificationToken = NoHash,
                      !.verificationExpires = NoTime]

\* the emailInfo the email change of updateUserProfile writes
setPendingEmailVerified(emailInfo, email, token, t) ==
    [emailInfo EXCEPT !.isVerified = FALSE, !.pendingEmail = email,
                      !.verificationToken = hashData(token),
                      !.verificationExpires = t + verificationExpires]

\* an email change that keeps a verification token already stored
setPendingEmailKeepToken(emailInfo, email, token, t) ==
    [emailInfo EXCEPT !.pendingEmail = email,
                      !.verificationToken =
                          IF @ = NoHash THEN hashData(token) ELSE @,
                      !.verificationExpires = t + verificationExpires]

setPendingEmail(emailInfo, email, token, t) ==
    [emailInfo EXCEPT !.pendingEmail = email,
                      !.verificationToken = hashData(token),
                      !.verificationExpires = t + verificationExpires]

\* updateUserProfile: the update of emailInfo from the emailInfo of
\* req.user, then the email to the new address, which is sent or throws;
\* an update that throws is caught, and the rollback throws in its turn
ProfileEmail(p) ==
    /\ procs[p].pc = "profileEmail"
    /\ LET user == procs[p].user
       IN  IF user.id \notin DOMAIN users
           THEN /\ procs' = [procs EXCEPT ![p] = Done(@, RecordNotFound)]
                /\ UNCHANGED <<users, nextToken, mailbox>>
           ELSE /\ users' = [users EXCEPT ![user.id].emailInfo =
                               setPendingEmail(user.emailInfo, procs[p].email,
                                               nextToken, now)]
                /\ nextToken' = nextToken + 1
                /\ \E sent \in BOOLEAN :
                      IF sent
                      THEN /\ mailbox' = mailbox \cup
                                  {[to |-> procs[p].email, token |-> nextToken]}
                           /\ procs' = [procs EXCEPT ![p] =
                                  Goto(@, AfterEmail(@), "Profile updated")]
                      ELSE /\ UNCHANGED mailbox
                           /\ procs' = [procs EXCEPT ![p].pc = "profileRollback"]
    /\ UNCHANGED <<sessions, now, issued, revoked, budget, serial, loginStore>>

\* updateUserProfile: the rollback in the catch, and the error is thrown again
ProfileRollback(p) ==
    /\ procs[p].pc = "profileRollback"
    /\ LET user == procs[p].user
       IN  IF user.id \notin DOMAIN users
           THEN /\ procs' = [procs EXCEPT ![p] = Done(@, RecordNotFound)]
                /\ UNCHANGED users
           ELSE /\ users' = [users EXCEPT ![user.id].emailInfo =
                               rollbackPendingEmail(user.emailInfo)]
                /\ procs' = [procs EXCEPT ![p] =
                               Done(@, throwError("Failed to send email", "500"))]
    /\ UNCHANGED <<sessions, now, nextToken, issued, revoked, mailbox, budget,
                   serial, loginStore>>

\* updateUserProfile: the update of passwordInfo from the passwordInfo of
\* req.user
ProfileUpdate(p) ==
    /\ procs[p].pc = "profileUpdate"
    /\ LET user == procs[p].user
       IN  IF user.id \notin DOMAIN users
           THEN /\ procs' = [procs EXCEPT ![p] = Done(@, RecordNotFound)]
                /\ UNCHANGED users
           ELSE /\ users' = [users EXCEPT ![user.id].passwordInfo =
                               [user.passwordInfo EXCEPT
                                  !.hash = hashPassword(procs[p].password)]]
                /\ procs' = [procs EXCEPT ![p] =
                               Done(@, Success("Password updated successfully"))]
    /\ UNCHANGED <<sessions, now, nextToken, issued, revoked, mailbox, budget,
                   serial, loginStore>>

\* the callback of a provider: the strategy's verify function, then
\* handleOAuthCallback
StartOAuth(p) ==
    /\ Free(p)
    /\ \E email \in RegisterEmails, provider \in Providers :
          Begin(p, [IdleProc EXCEPT !.op = "oauth", !.pc = "oauthFind",
                                    !.email = email, !.provider = provider])
    /\ UNCHANGED <<users, sessions, now, nextToken, issued, revoked, mailbox,
                   serial, loginStore>>

\* createOAuthUser: findUnique by email; an existing user is returned as is
OAuthFind(p) ==
    /\ procs[p].pc = "oauthFind"
    /\ LET found == findUserByEmail(users, procs[p].email)
       IN  procs' = [procs EXCEPT ![p] =
             IF found = {}
             THEN [@ EXCEPT !.pc = "oauthCreate"]
             ELSE [@ EXCEPT !.pc = "oauthIssue", !.found = TRUE,
                            !.user = users[CHOOSE id \in found : TRUE]]]
    /\ UNCHANGED <<users, sessions, now, nextToken, issued, revoked, mailbox,
                   budget, serial, loginStore>>

\* createOAuthUser: prisma.user.create
OAuthCreate(p) ==
    /\ procs[p].pc = "oauthCreate"
    /\ IF Conflicts(users, "none", procs[p].email, "none")
       THEN /\ procs' = [procs EXCEPT ![p] = Done(@, UniqueViolation)]
            /\ UNCHANGED <<users, nextToken>>
       ELSE LET newUser == createOAuthUser(NewIds[nextToken], procs[p].email,
                                           procs[p].provider, now)
            IN  /\ users' = Insert(users, newUser)
                /\ nextToken' = nextToken + 1
                /\ procs' = [procs EXCEPT ![p] =
                               [@ EXCEPT !.pc = "oauthIssue", !.user = newUser]]
    /\ UNCHANGED <<sessions, now, issued, revoked, mailbox, budget, serial, loginStore>>

\* loginStore.set: the record of a code, with the expiry of the code
loginStoreSet(store, code, user, tokens, t) ==
    {r \in store : r.code # code} \cup
       {[code |-> code, user |-> user, tokens |-> tokens,
         expiresAt |-> t + loginCodeExpiry]}

\* a delete that leaves the record in the store
loginStoreDeleteNothing(store, code) == store

\* loginStore.delete
loginStoreDelete(store, code) == {r \in store : r.code # code}

\* loginStore.get: the record of the code, when there is one that has not
\* expired; an expired record is deleted
loginStoreGet(store, code, t) ==
    LET record == {r \in store : r.code = code}
    IN  IF record = {}
        THEN [record |-> {}, store |-> store]
        ELSE IF \E r \in record : r.expiresAt < t
        THEN [record |-> {}, store |-> loginStoreDelete(store, code)]
        ELSE [record |-> record, store |-> store]

\* a cleanup that deletes nothing
cleanupNothing(store, t) == store

\* cleanup, on the timer: the expired records are deleted
cleanup(store, t) == {r \in store : ~(r.expiresAt < t)}

\* handleOAuthCallback: generateTokenPair(req.user), then a login code is
\* generated and stored with the user and the pair, and the redirect
\* carries the code
OAuthIssue(p) ==
    /\ procs[p].pc = "oauthIssue"
    /\ LET tokens == TokenPair(procs[p].user, nextToken, NoToken, now)
           code == nextToken + 1
       IN  /\ sessions' = sessions \cup
                            {createSession(procs[p].user, nextToken, now)}
           /\ issued' = issued \cup {tokens}
           /\ loginStore' = loginStoreSet(loginStore, code, procs[p].user,
                                          tokens, now)
           /\ nextToken' = nextToken + 2
           /\ procs' = [procs EXCEPT ![p] =
                          Done([@ EXCEPT !.code = code], Success("redirect"))]
    /\ UNCHANGED <<users, now, revoked, mailbox, budget, serial>>

\* GET /exchange-code: the handler has no await and runs in one piece;
\* the client sends any string it has seen, or no code
ExchangeCode(p) ==
    /\ Free(p)
    /\ \E code \in 0 .. (nextToken - 1) :
          LET proc == [IdleProc EXCEPT !.op = "exchangeCode", !.code = code]
              got == loginStoreGet(loginStore, code, now)
          IN  IF code = NoCode
              THEN /\ Begin(p, Done(proc, throwError("Missing login code", "400")))
                   /\ UNCHANGED loginStore
              ELSE IF got.record = {}
              THEN /\ Begin(p, Done(proc, throwError(
                                  "Invalid or expired login code", "400")))
                   /\ loginStore' = got.store
              ELSE /\ loginStore' = loginStoreDelete(got.store, code)
                   /\ \E record \in got.record :
                         Begin(p, [Done(proc, Success("Login successful"))
                                     EXCEPT !.rt = record.tokens.refreshToken,
                                            !.email = record.user.email])
    /\ UNCHANGED <<users, sessions, now, nextToken, issued, revoked, mailbox,
                   serial>>

\* setInterval(cleanup, 60 * 1000)
Sweep ==
    /\ loginStore' = cleanup(loginStore, now)
    /\ UNCHANGED <<users, sessions, now, procs, nextToken, issued, revoked,
                   mailbox, budget, serial>>

RegisterStep(p) ==
    \/ StartRegister(p)
    \/ RegisterCheck(p)
    \/ RegisterDelete(p)
    \/ RegisterCreate(p)

VerifyStep(p) ==
    \/ StartVerify(p)
    \/ VerifyFind(p)
    \/ VerifyTaken(p)
    \/ VerifyUpdate(p)
    \/ VerifyIssue(p)

ProfilePasswordStep(p) ==
    \/ StartProfile(p, {"none"})
    \/ AuthFindSession(p)
    \/ AuthFindUser(p)
    \/ ProfileCheck(p)
    \/ ProfileUpdate(p)

ProfileStep(p) ==
    \/ StartProfile(p, ProfileEmails)
    \/ AuthFindSession(p)
    \/ AuthFindUser(p)
    \/ ProfileCheck(p)
    \/ ProfileDelete(p)
    \/ ProfileEmail(p)
    \/ ProfileRollback(p)
    \/ ProfileUpdate(p)

OAuthStep(p) ==
    \/ StartOAuth(p)
    \/ OAuthFind(p)
    \/ OAuthCreate(p)
    \/ OAuthIssue(p)

\* the accounts at time 0: a verified account with a phone, logged in, that
\* asked for a change of its email and for a password reset, and may be
\* locked after five wrong passwords; and a registration not yet verified,
\* that asked for a reset too
InitUsersAccount(locked, requests) ==
    LET a == [LocalUser("u1", "a@x", "pw1", TRUE) EXCEPT
                !.phone = "p1",
                !.lastLoginAt = 0,
                !.emailInfo = setPendingEmail(@, "c@x", 5, 0),
                !.passwordInfo.resetToken = hashData(3),
                !.passwordInfo.resetExpires = resetExpires,
                !.lockoutInfo = IF locked
                                THEN [isLocked |-> TRUE,
                                      lockedUntil |-> loginLockTime,
                                      failedAttemptCount |-> maxLoginAttempts]
                                ELSE @]
        b == [createUserWithVerification("u2", "b@x", "p2", "pw1", 2, 0) EXCEPT
                !.passwordInfo.resetToken = hashData(4),
                !.passwordInfo.resetExpires = resetExpires]
    IN  /\ users = [u \in UserIds |-> IF u = "u1" THEN a ELSE b]
        /\ sessions = {createSession(a, 1, 0)}
        /\ issued = {TokenPair(a, 1, NoToken, 0)}
        /\ mailbox = {[to |-> "b@x", token |-> 2], [to |-> "a@x", token |-> 3],
                      [to |-> "b@x", token |-> 4], [to |-> "c@x", token |-> 5]}
        /\ nextToken = 6
        /\ now = 0
        /\ procs = [p \in Procs |-> IdleProc]
        /\ revoked = {}
        /\ serial = FALSE
        /\ loginStore = {}
        /\ budget = requests

InitTokens == \E locked \in BOOLEAN : InitUsersAccount(locked, MaxRequests)

InitAccounts == InitUsersAccount(FALSE, MaxAccountRequests)

NextTokens ==
    Tick \/ \E p \in Procs : VerifyStep(p) \/ ResetStep(p)
                                \/ ProfilePasswordStep(p)

\* every handler of these requests runs within one tick of the clock
NextAccounts ==
    \E p \in Procs : RegisterStep(p) \/ OAuthStep(p) \/ ProfileStep(p)
                         \/ VerifyStep(p)

\* email verification, password reset and profile update, two at a time
SpecTokens == InitTokens /\ [][NextTokens]_vars

\* registration, provider login, profile update and email verification
SpecAccounts == InitAccounts /\ [][NextAccounts]_vars

\* the cleanup of register and updateProfile against a verification or a
\* password reset of the account in conflict
NextCleanup ==
    \E p \in Procs : RegisterStep(p) \/ ProfileStep(p) \/ VerifyStep(p)
                         \/ ResetStep(p)

SpecCleanup == InitAccounts /\ [][NextCleanup]_vars

\* a verified account and a registration not yet verified whose owner has
\* logged in through a provider with the same email, which gave the
\* unverified account a session, and exchanged the login code
InitUnverifiedSession ==
    LET a == [LocalUser("u1", "a@x", "pw1", TRUE) EXCEPT !.phone = "p1"]
        b == createUserWithVerification("u2", "b@x", "p2", "pw1", 1, 0)
    IN  /\ users = [u \in UserIds |-> IF u = "u1" THEN a ELSE b]
        /\ sessions = {createSession(b, 2, 0)}
        /\ issued = {TokenPair(b, 2, NoToken, 0)}
        /\ mailbox = {[to |-> "b@x", token |-> 1]}
        /\ nextToken = 4
        /\ now = 0
        /\ procs = [p \in Procs |-> IdleProc]
        /\ revoked = {}
        /\ serial = FALSE
        /\ loginStore = {}
        /\ budget = MaxAccountRequests

\* the requests of SpecAccounts with a session of an unverified account
SpecUnverified == InitUnverifiedSession /\ [][NextAccounts]_vars

\* an account after four wrong passwords, or locked by a fifth at time 0,
\* that asked for a password reset and received the email
InitLockReset ==
    \E locked \in BOOLEAN :
       LET a == [LocalUser("u1", "a@x", "pw1", TRUE) EXCEPT
                   !.passwordInfo.resetToken = hashData(1),
                   !.passwordInfo.resetExpires = resetExpires,
                   !.lockoutInfo =
                      IF locked
                      THEN [isLocked |-> TRUE, lockedUntil |-> loginLockTime,
                            failedAttemptCount |-> maxLoginAttempts]
                      ELSE [isLocked |-> FALSE, lockedUntil |-> NoTime,
                            failedAttemptCount |-> maxLoginAttempts - 1]]
           b == OAuthUser("u2", "b@x", "google")
       IN  /\ users = [u \in UserIds |-> IF u = "u1" THEN a ELSE b]
           /\ sessions = {}
           /\ issued = {}
           /\ mailbox = {[to |-> "a@x", token |-> 1]}
           /\ nextToken = 2
           /\ now = 0
           /\ procs = [p \in Procs |-> IdleProc]
           /\ revoked = {}
           /\ serial = FALSE
           /\ loginStore = {}
           /\ budget = MaxRequests

NextLockReset == Tick \/ \E p \in Procs : LoginStep(p) \/ ResetStep(p)

\* password login and password reset near the lock, two at a time
SpecLockReset == InitLockReset /\ [][NextLockReset]_vars

\* the account of b@x logged in and was then locked by a fifth wrong
\* password, at time 0; its owner can still log in through a provider
InitLocked ==
    LET a == LocalUser("u1", "a@x", "pw1", TRUE)
        b == [LocalUser("u2", "b@x", "pw1", TRUE) EXCEPT
                !.lastLoginAt = 0,
                !.lockoutInfo = [isLocked |-> TRUE,
                                 lockedUntil |-> loginLockTime,
                                 failedAttemptCount |-> maxLoginAttempts]]
    IN  /\ users = [u \in UserIds |-> IF u = "u1" THEN a ELSE b]
        /\ sessions = {createSession(b, 1, 0)}
        /\ issued = {TokenPair(b, 1, NoToken, 0)}
        /\ mailbox = {}
        /\ nextToken = 2
        /\ now = 0
        /\ procs = [p \in Procs |-> IdleProc]
        /\ revoked = {}
        /\ serial = FALSE
        /\ loginStore = {}
        /\ budget = MaxRequests

NextLocked ==
    \/ Tick
    \/ \E p \in Procs :
          \/ OAuthStep(p)
          \/ StartProtected(p)
          \/ AuthFindSession(p)
          \/ AuthFindUser(p)
          \/ Logout(p)
          \/ LogoutAll(p)

\* the protected routes and provider login of a locked account
SpecLocked == InitLocked /\ [][NextLocked]_vars

\* an account with a password and an account of a provider; nobody is
\* logged in
InitExchange ==
    /\ users = [u \in UserIds |->
                  IF u = "u1" THEN LocalUser("u1", "a@x", "pw1", TRUE)
                  ELSE OAuthUser("u2", "b@x", "google")]
    /\ sessions = {}
    /\ issued = {}
    /\ mailbox = {}
    /\ nextToken = 1
    /\ now = 0
    /\ procs = [p \in Procs |-> IdleProc]
    /\ revoked = {}
    /\ serial = FALSE
    /\ loginStore = {}
    /\ budget = MaxRequests

NextExchange ==
    Tick \/ Sweep \/ \E p \in Procs : OAuthStep(p) \/ ExchangeCode(p)

\* provider login and the exchange of the login code
SpecExchange == InitExchange /\ [][NextExchange]_vars

----------------------------------------------------------------------------
(* The global error handler: what the client receives for an error.        *)

\* errorHandler: status and code are err.code || 500, the message is the
\* error's own only when the error is operational
errorHandler(err) ==
    [code |-> IF err.code # "" THEN err.code ELSE "500",
     status |-> "error",
     msg |-> IF err.isOperational THEN err.msg ELSE "Internal Server Error"]

----------------------------------------------------------------------------
(* OauthService: handleGithubAuth, the verify function of the GitHub        *)
(* strategy.                                                               *)

GithubEmails == {"a@x", "z@x"}

\* the lists GET /user/emails can answer with
GithubEmailLists ==
    LET Entry == [email : GithubEmails, primary : BOOLEAN]
    IN  {<<>>} \cup {<<e>> : e \in Entry}
               \cup {<<e, f>> : e \in Entry, f \in Entry}

\* emails.find((e) => e.primary)?.email ?? emails[0]?.email
primaryEmail(emails) ==
    LET flagged == {i \in DOMAIN emails : emails[i].primary}
    IN  IF flagged # {}
        THEN emails[CHOOSE i \in flagged : \A j \in flagged : i <= j].email
        ELSE IF emails = <<>> THEN "none" ELSE emails[1].email

\* the checks of handleGithubAuth once the email is settled
githubProfile(proc, email) ==
    IF email = "none"
    THEN Done(proc, throwError("No email found for GitHub user", "404"))
    ELSE IF ~proc.github.named
    THEN Done(proc, throwError("No display name found in GitHub profile", "400"))
    ELSE [proc EXCEPT !.pc = "oauthFind", !.email = email]

\* the callback of GitHub: the profile carries an email or none
StartGithub(p) ==
    /\ Free(p)
    /\ \E email \in GithubEmails \cup {"none"}, named \in BOOLEAN :
          LET proc == [IdleProc EXCEPT !.op = "github", !.provider = "github",
                                       !.email = email,
                                       !.github.named = named]
          IN  Begin(p, IF email = "none"
                       THEN [proc EXCEPT !.pc = "githubFetch"]
                       ELSE githubProfile(proc, email))
    /\ UNCHANGED <<users, sessions, now, nextToken, issued, revoked, mailbox,
                   serial, loginStore>>

\* fetch(GITHUB_EMAIL_API): the call fails or answers not ok, which the
\* catch turns into one error, or it answers a list
GithubFetch(p) ==
    /\ procs[p].pc = "githubFetch"
    /\ \E ok \in BOOLEAN, emails \in GithubEmailLists :
          /\ ~ok => emails = <<>>
          /\ LET proc == [procs[p] EXCEPT !.github.ok = ok,
                                          !.github.emails = emails]
             IN  procs' = [procs EXCEPT ![p] =
                   IF ~ok
                   THEN Done(proc, throwError(
                           "Unable to retrieve user email from GitHub", "400"))
                   ELSE githubProfile(proc, primaryEmail(emails))]
    /\ UNCHANGED <<users, sessions, now, nextToken, issued, revoked, mailbox,
                   budget, serial, loginStore>>

InitGithub == InitExchange

NextGithub ==
    \E p \in Procs :
       \/ StartGithub(p)
       \/ GithubFetch(p)
       \/ OAuthFind(p)
       \/ OAuthCreate(p)
       \/ OAuthIssue(p)

\* logins with GitHub
SpecGithub == InitGithub /\ [][NextGithub]_vars

----------------------------------------------------------------------------
(* Forgot password and the change of the email, side by side.              *)

InitOverwrite == InitUsersAccount(FALSE, MaxAccountRequests)

NextOverwrite == \E p \in Procs : ForgotStep(p) \/ ProfileStep(p)

\* requests for a reset token and for a change of the email
SpecOverwrite == InitOverwrite /\ [][NextOverwrite]_vars

----------------------------------------------------------------------------
(* The login store over time: the clock runs on after the last request,    *)
(* and the timer of cleanup keeps firing.                                  *)

\* the clock after the requests: it runs on until every record a request
\* could store has expired; past MaxTime no handler is under way
TickLate ==
    /\ now < MaxTime + loginCodeExpiry + 1
    /\ now >= MaxTime => \A p \in Procs : procs[p].pc \in {"idle", "done"}
    /\ now' = now + 1
    /\ UNCHANGED <<users, sessions, procs, nextToken, issued, revoked, mailbox,
                   budget, serial, loginStore>>

InitSweep ==
    /\ users = [u \in UserIds |->
                  IF u = "u1" THEN LocalUser("u1", "a@x", "pw1", TRUE)
                  ELSE OAuthUser("u2", "b@x", "google")]
    /\ sessions = {}
    /\ issued = {}
    /\ mailbox = {}
    /\ nextToken = 1
    /\ now = 0
    /\ procs = [p \in Procs |-> IdleProc]
    /\ revoked = {}
    /\ serial = FALSE
    /\ loginStore = {}
    /\ budget = MaxAccountRequests

\* the callbacks of the providers arrive up to MaxTime
StartOAuthInTime(p) == now <= MaxTime /\ StartOAuth(p)

NextSweep ==
    \/ TickLate
    \/ Sweep
    \/ \E p \in Procs :
          \/ StartOAuthInTime(p)
          \/ OAuthFind(p)
          \/ OAuthCreate(p)
          \/ OAuthIssue(p)
          \/ ExchangeCode(p)

\* time passes, the interval timer fires, and a handler that can take its
\* next step takes it
FairSweep ==
    /\ WF_vars(TickLate)
    /\ WF_vars(Sweep)
    /\ \A p \in Procs : WF_vars(OAuthFind(p) \/ OAuthCreate(p) \/ OAuthIssue(p))

\* provider logins, exchanges of the code and the sweep, with time going on
SpecSweep == InitSweep /\ [][NextSweep]_vars /\ FairSweep

----------------------------------------------------------------------------
(* Claims on the session service and the authenticate middleware.          *)

\* the token pairs issued by rotating refresh token t
Children(t) == {i \in issued : i.parent = t}

\* the time a token pair was issued at
IssuedAt(i) == i.accessToken.exp - jwtExpiresIn

HasSession(t) == \E s \in sessions : s.refreshToken = hashData(t)

Revoked(t) == \E r \in revoked : r.rt = t

\* process p takes a step
Steps(p) == procs'[p] # procs[p]

\* C1: two concurrent refreshAccessToken calls on one valid refresh token:
\* no token is ever rotated twice, and when both calls found the session
\* (and only rotation deleted it) exactly one of them succeeds, exactly
\* one new token pair was issued from it, and the old session is gone.
C1_OneRotationWins ==
    /\ \A i \in issued : Cardinality(Children(i.refreshToken)) <= 1
    /\ \A p, q \in Procs :
          ( /\ p # q
            /\ procs[p].op = "refresh" /\ procs[q].op = "refresh"
            /\ procs[p].pc = "done" /\ procs[q].pc = "done"
            /\ procs[p].rt = procs[q].rt
            /\ procs[p].found /\ procs[q].found
            /\ \A r \in revoked : r.rt = procs[p].rt => r.by = "rotate" )
          => /\ procs[p].res.ok # procs[q].res.ok
             /\ Cardinality(Children(procs[p].rt)) = 1
             /\ ~HasSession(procs[p].rt)
             /\ \A i \in Children(procs[p].rt) :
                   HasSession(i.refreshToken) \/ Revoked(i.refreshToken)

\* C1 witness: both calls found the session; one succeeded, the other failed
C1_Witness ==
    \E p, q \in Procs :
       /\ p # q
       /\ procs[p].op = "refresh" /\ procs[q].op = "refresh"
       /\ procs[p].pc = "done" /\ procs[q].pc = "done"
       /\ procs[p].rt = procs[q].rt
       /\ procs[p].found /\ procs[q].found
       /\ procs[p].res.ok /\ ~procs[q].res.ok
       /\ \E i \in Children(procs[p].rt) : HasSession(i.refreshToken)

\* the state part of C2: a rotated token has no session, and the pair
\* issued for it is of the account that owned it
C2_RotatedIsGone ==
    \A i \in issued :
       i.parent # NoToken =>
          /\ ~HasSession(i.parent)
          /\ \E j \in issued : /\ j.refreshToken = i.parent
                                /\ j.userId = i.userId
                                /\ i.accessToken.userId = j.userId
          /\ \A s \in sessions :
                s.refreshToken = hashData(i.refreshToken) => s.userId = i.userId

\* C2: rotation is hard: once rotate(t) has succeeded, t has no session in
\* any later state, every refresh and every authenticated request that
\* looks t up afterwards is rejected, and the new pair belongs to the
\* account of the rotated session.
C2_HardRotation ==
    /\ []C2_RotatedIsGone
    /\ [][\A p \in Procs :
            ( /\ procs[p].pc \in {"refreshFind", "authFindSession"}
              /\ Steps(p)
              /\ Children(procs[p].rt) # {} )
            => procs'[p].pc = "done" /\ ~procs'[p].res.ok]_vars

\* C2 witness: an authenticated request presented a rotated token, whose
\* session would not have expired yet, and got 401
C2_Witness ==
    \E p \in Procs :
       /\ procs[p].op = "protected" /\ procs[p].pc = "done"
       /\ procs[p].res = throwError("Invalid or expired refresh token", "401")
       /\ Children(procs[p].rt) # {}
       /\ \E j \in issued : /\ j.refreshToken = procs[p].rt
                             /\ IssuedAt(j) + refreshExpiresIn > now

\* C3: every refreshAccessToken call that fails fails with the error for
\* an invalid or expired token (or a missing account), and the step in
\* which it fails changes no session.
C3_RefreshFailsAsInvalidToken ==
    [][\A p \in Procs :
         ( /\ procs[p].op = "refresh"
           /\ procs[p].pc # "done" /\ procs'[p].pc = "done"
           /\ ~procs'[p].res.ok )
         => /\ procs'[p].res \in {InvalidOrExpiredToken,
                                   throwError("User not found", "500")}
            /\ sessions' = sessions]_vars

\* C4: authenticate lets a request through only with an access token that
\* verifies and an unexpired session for the presented refresh token; a
\* request whose refresh token was revoked (by logout, logout-all,
\* rotation or password reset) ends with 401, whatever its access token.
C4_RevokedIsRejected ==
    [][\A p \in Procs :
         /\ ( /\ procs[p].pc \in {"idle", "done"}
              /\ procs'[p].pc = "authFindSession" )
            => procs'[p].at.signed /\ procs'[p].at.exp > now
         /\ ( /\ procs[p].pc = "authFindSession"
              /\ procs'[p].pc = "authFindUser" )
            => \E s \in sessions : /\ s.refreshToken = hashData(procs[p].rt)
                                   /\ s.expiresAt > now
         /\ ( /\ procs[p].pc = "authFindSession"
              /\ Steps(p)
              /\ Revoked(procs[p].rt) )
            => procs'[p].pc = "done" /\ procs'[p].res.code = "401"]_vars

\* C4 witness: a request with a verified access token and the refresh token
\* of a session that a password reset deleted before it expired got 401
C4_Witness ==
    \E p \in Procs :
       /\ procs[p].op = "protected" /\ procs[p].pc = "done"
       /\ procs[p].res = throwError("Invalid or expired refresh token", "401")
       /\ \E r \in revoked : r.rt = procs[p].rt /\ r.by = "reset"
       /\ \E j \in issued : /\ j.refreshToken = procs[p].rt
                             /\ IssuedAt(j) + refreshExpiresIn > now
                             /\ j.accessToken.exp > now

----------------------------------------------------------------------------
(* Claims on password login and the lockout.                               *)

\* the stored accounts with this email
Holders(email) == {u \in DOMAIN users : users[u].email = email}

\* the stored lockout says locked, at the time of the clock
StoredLocked(u) ==
    /\ users[u].lockoutInfo.isLocked
    /\ users[u].lockoutInfo.lockedUntil # NoTime
    /\ users[u].lockoutInfo.lockedUntil > now

\* the login of p is a wrong password for a verified, unlocked account
WrongPassword(p) ==
    \E u \in Holders(procs[p].email) :
       /\ users[u].emailInfo.isVerified
       /\ ~StoredLocked(u)
       /\ users[u].passwordInfo.hash # NoHash
       /\ users[u].passwordInfo.hash # hashPassword(procs[p].password)

\* C5: one request at a time, from a count of 0: a wrong password for a
\* verified, unlocked account adds exactly one to failedAttemptCount; the
\* attempt that brings the count to maxLoginAttempts (5) or more sets
\* isLocked with lockedUntil = now + loginLockTime, and no attempt before
\* it locks.
C5_FifthAttemptLocks ==
    /\ [](\A u \in DOMAIN users :
            users[u].lockoutInfo.isLocked
               => users[u].lockoutInfo.failedAttemptCount >= maxLoginAttempts)
    /\ [][\A p \in Procs :
            /\ (procs[p].pc = "loginFind" /\ Steps(p) /\ WrongPassword(p))
                  => procs'[p].pc = "loginIncrement"
            /\ (procs[p].pc = "loginIncrement" /\ Steps(p))
                  => LET before == users[procs[p].user.id].lockoutInfo
                         after == users'[procs[p].user.id].lockoutInfo
                     IN  /\ after.failedAttemptCount =
                               before.failedAttemptCount + 1
                         /\ after.isLocked =
                               (after.failedAttemptCount >= maxLoginAttempts)
                         /\ after.lockedUntil =
                               IF after.failedAttemptCount >= maxLoginAttempts
                               THEN now + loginLockTime ELSE NoTime]_vars

\* C5 witness: the fifth wrong password has just locked the account
C5_Witness ==
    \E p \in Procs, u \in DOMAIN users :
       /\ procs[p].op = "login" /\ procs[p].pc = "done"
       /\ procs[p].res.code = "401"
       /\ users[u].email = procs[p].email
       /\ users[u].lockoutInfo.failedAttemptCount = maxLoginAttempts
       /\ users[u].lockoutInfo.isLocked
       /\ users[u].lockoutInfo.lockedUntil = now + loginLockTime

\* C6: a password login ends with 423 exactly when the stored isLocked is
\* true and lockedUntil is set and after the current time; it then ends at
\* once, with no session and no token pair; a flag whose lockedUntil has
\* passed does not reject.
C6_LockedUntilDecides ==
    [][\A p \in Procs :
         (procs[p].pc = "loginFind" /\ Steps(p))
            => /\ (procs'[p].res.code = "423")
                     <=> (\E u \in Holders(procs[p].email) : StoredLocked(u))
               /\ (procs'[p].res.code = "423")
                     => /\ procs'[p].pc = "done"
                        /\ sessions' = sessions
                        /\ issued' = issued]_vars

\* C6 witness: the correct password got 423 while the lock lasted, and a
\* later login passed the check with the flag still stored as true
C6_Witness ==
    /\ \E p \in Procs, u \in DOMAIN users :
          /\ procs[p].op = "login" /\ procs[p].pc = "done"
          /\ procs[p].res.code = "423"
          /\ users[u].email = procs[p].email
          /\ users[u].passwordInfo.hash = hashPassword(procs[p].password)
    /\ \E q \in Procs :
          /\ procs[q].pc = "loginReset"
          /\ users[procs[q].user.id].lockoutInfo.isLocked
          /\ users[procs[q].user.id].lockoutInfo.lockedUntil <= now

\* C7: failedAttemptCount is 0 after every successful password login and
\* after every successful password reset, whatever it was before.
C7_CountZeroAfterSuccess ==
    [][\A p \in Procs :
         /\ (procs[p].pc = "loginStamp" /\ procs'[p].pc = "loginIssue")
               => users'[procs[p].user.id].lockoutInfo.failedAttemptCount = 0
         /\ (procs[p].pc = "resetUpdate" /\ procs'[p].pc = "resetRevoke")
               => users'[procs[p].user.id].lockoutInfo.failedAttemptCount = 0]_vars

\* C8: no lost update: every wrong-password login that completes has
\* raised the stored failedAttemptCount by exactly one, so two of them
\* raise it by two, however their reads and writes interleave.
C8_NoLostUpdate ==
    [][\A p \in Procs :
         (procs[p].pc = "loginIncrement" /\ procs'[p].pc = "done")
            => users'[procs[p].user.id].lockoutInfo.failedAttemptCount =
                  users[procs[p].user.id].lockoutInfo.failedAttemptCount + 1]_vars

\* the state part of C9: a login past authenticateUser read an account that
\* has the password hash of the submitted password, is verified, and was
\* not locked when it was read
C9_ValidLogin ==
    \A p \in Procs :
       procs[p].pc \in {"loginReset", "loginStamp", "loginIssue"}
          => LET user == procs[p].user
             IN  /\ user.id \in UserIds
                 /\ user.email = procs[p].email
                 /\ user.passwordInfo.hash # NoHash
                 /\ user.passwordInfo.hash = hashPassword(procs[p].password)
                 /\ user.emailInfo.isVerified
                 /\ user.lockoutInfo.isLocked
                       => user.lockoutInfo.lockedUntil <= now

\* C9: login creates a session only after authenticateUser returned
\* isValid (the account exists, has a password hash, is verified, is not
\* locked, the password matches), having stamped lastLoginAt; a login that
\* ends with an error creates no session.
C9_SessionOnlyForValidLogin ==
    /\ []C9_ValidLogin
    /\ [][\A s \in sessions' \ sessions :
              \E p \in Procs : /\ procs[p].pc = "loginIssue"
                                /\ procs'[p].pc = "done"
                                /\ procs'[p].res.ok
                                /\ s.userId = procs[p].user.id]_vars
    /\ [][\A p \in Procs :
            /\ (procs[p].pc = "loginStamp" /\ procs'[p].pc = "loginIssue")
                  => users'[procs[p].user.id].lastLoginAt = now
            /\ ( /\ procs[p].op = "login"
                 /\ procs[p].pc # "done" /\ procs'[p].pc = "done"
                 /\ ~procs'[p].res.ok )
                  => sessions' = sessions /\ issued' = issued]_vars

\* C9 witness: a login succeeded; its session and the stamp are stored
C9_Witness ==
    \E p \in Procs, u \in DOMAIN users :
       /\ procs[p].op = "login" /\ procs[p].pc = "done" /\ procs[p].res.ok
       /\ users[u].email = procs[p].email
       /\ users[u].lastLoginAt # NoTime
       /\ \E s \in sessions : s.userId = u

\* an account without a password hash and with a provider
OAuthOnly(user) ==
    user.emailInfo.provider # "none" /\ user.passwordInfo.hash = NoHash

\* C10: a password login for an account that has a provider and no
\* password hash ends with 403 for every password, changes nothing, and
\* never gets as far as a failed attempt, a valid result or a token pair.
C10_OAuthOnlyNeverByPassword ==
    /\ [](\A p \in Procs :
            procs[p].pc \in {"loginIncrement", "loginReset", "loginStamp",
                             "loginIssue"}
               => ~OAuthOnly(procs[p].user))
    /\ [][\A p \in Procs :
            ( /\ procs[p].pc = "loginFind" /\ Steps(p)
              /\ \E u \in Holders(procs[p].email) : OAuthOnly(users[u]) )
            => /\ procs'[p].pc = "done"
               /\ procs'[p].res.code = "403"
               /\ users' = users
               /\ sessions' = sessions
               /\ issued' = issued]_vars

\* C10 witness: a login for the account without a password got 403
C10_Witness ==
    \E p \in Procs, u \in DOMAIN users :
       /\ procs[p].op = "login" /\ procs[p].pc = "done"
       /\ procs[p].res.code = "403"
       /\ users[u].email = procs[p].email
       /\ OAuthOnly(users[u])

----------------------------------------------------------------------------
(* Claims on the outcomes of login that change nothing.                    *)

\* C11: a password login for an email no account has ends with the 401 of
\* an invalid result; for an account that is not verified (and has a
\* password) with 403; for a verified account that is locked with 423; in
\* all three the handler ends at the lookup, whatever the password is: no
\* document changes, no session is created and no token pair is issued.
C11_RejectedLoginChangesNothing ==
    [][\A p \in Procs :
         (procs[p].pc = "loginFind" /\ Steps(p))
            => LET held == Holders(procs[p].email)
                   ends(code) == /\ procs'[p].pc = "done"
                                 /\ procs'[p].res.code = code
                                 /\ users' = users
                                 /\ sessions' = sessions
                                 /\ issued' = issued
               IN  /\ held = {} => ends("401")
                   /\ \A u \in held :
                        /\ (~OAuthOnly(users[u]) /\ ~users[u].emailInfo.isVerified)
                              => ends("403")
                        /\ (users[u].emailInfo.isVerified /\ StoredLocked(u))
                              => ends("423")]_vars

\* C11 witness: a wrong password for an account that is not verified got
\* 403 and was not counted, and a login for an unknown email got 401
C11_Witness ==
    \E p, q \in Procs, u \in DOMAIN users :
       /\ procs[p].op = "login" /\ procs[p].pc = "done"
       /\ procs[p].res.code = "403"
       /\ users[u].email = procs[p].email
       /\ ~users[u].emailInfo.isVerified
       /\ users[u].passwordInfo.hash # hashPassword(procs[p].password)
       /\ users[u].lockoutInfo.failedAttemptCount = 0
       /\ users[u].lastLoginAt = NoTime
       /\ procs[q].op = "login" /\ procs[q].pc = "done"
       /\ procs[q].res.code = "401"
       /\ Holders(procs[q].email) = {}

----------------------------------------------------------------------------
(* Claims on the verification token and the reset token.                   *)

\* handler q has answered a request of kind op with success; it keeps the
\* token of the request
Succeeded(q, op) ==
    /\ procs[q].op = op /\ procs[q].pc = "done" /\ procs[q].res.ok
    /\ procs[q].token # NoToken

\* C12: tokens are single-use: the update of verifyEmail clears the stored
\* verification token and expiry, the update of resetPassword clears the
\* stored reset token and expiry, and once a verifyEmail (resetPassword)
\* with token t has succeeded, every verifyEmail (resetPassword) that looks
\* t up afterwards fails and changes nothing.
C12_TokensAreSingleUse ==
    [][\A p \in Procs :
         /\ (procs[p].pc = "verifyUpdate" /\ procs'[p].pc \in {"verifyIssue", "done"}
                /\ procs'[p].res.code \in {"", "200"})
               => LET e == users'[procs[p].user.id].emailInfo
                  IN  e.verificationToken = NoHash /\ e.verificationExpires = NoTime
         /\ (procs[p].pc = "resetUpdate" /\ procs'[p].pc = "resetRevoke")
               => LET i == users'[procs[p].user.id].passwordInfo
                  IN  /\ i.resetToken = NoHash /\ i.resetExpires = NoTime
                      /\ i.hash = hashPassword(procs[p].password)
         /\ \A q \in Procs \ {p} :
              /\ ( /\ Succeeded(q, "verify") /\ procs[p].pc = "verifyFind"
                   /\ procs[p].token = procs[q].token /\ Steps(p) )
                    => procs'[p].pc = "done" /\ procs'[p].res.code = "403"
              /\ ( /\ Succeeded(q, "reset") /\ procs[p].pc = "resetFind"
                   /\ procs[p].token = procs[q].token /\ Steps(p) )
                    => procs'[p].pc = "done" /\ ~procs'[p].res.ok]_vars

\* token is the reset token of an account, not expired
ValidResetToken(token) ==
    token # NoToken /\ findUserByResetToken(users, token, now) # {}

\* token is the verification token of an account, not expired
ValidVerificationToken(token) ==
    token # NoToken /\ findUserByVerificationToken(users, token, now) # {}

\* C13: the two tokens are not interchangeable: verifyEmail with a token
\* that is a valid reset token fails at its lookup with 403, resetPassword
\* with a token that is a valid verification token fails at its lookup,
\* and neither changes a document or a session.
C13_TokensNotInterchangeable ==
    [][\A p \in Procs :
         /\ ( /\ procs[p].pc = "verifyFind" /\ Steps(p)
              /\ ValidResetToken(procs[p].token) )
               => /\ procs'[p].pc = "done" /\ procs'[p].res.code = "403"
                  /\ users' = users /\ sessions' = sessions
         /\ ( /\ procs[p].pc = "resetFind" /\ Steps(p)
              /\ ValidVerificationToken(procs[p].token) )
               => /\ procs'[p].pc = "done" /\ ~procs'[p].res.ok
                  /\ users' = users /\ sessions' = sessions]_vars

\* C13 witness: a verifyEmail was refused a token that is still a valid
\* reset token, and a resetPassword a token that is still a valid
\* verification token
C13_Witness ==
    \E p, q \in Procs :
       /\ procs[p].op = "verify" /\ procs[p].pc = "done"
       /\ procs[p].res.code = "403"
       /\ ValidResetToken(procs[p].token)
       /\ procs[q].op = "reset" /\ procs[q].pc = "done" /\ ~procs[q].res.ok
       /\ ValidVerificationToken(procs[q].token)

\* C14: a successful resetPassword deletes every session of the account
\* and no session of another account; every refresh token issued to the
\* account before is from then on without a session, and rotate and
\* authenticate reject it.
C14_ResetRevokesEverySession ==
    /\ [](\A r \in revoked : ~HasSession(r.rt))
    /\ [][\A p \in Procs :
            (procs[p].pc = "resetRevoke" /\ Steps(p))
               => LET u == procs[p].user.id
                  IN  /\ procs'[p].pc = "done" /\ procs'[p].res.ok
                      /\ \A s \in sessions' : s.userId # u
                      /\ \A s \in sessions : s.userId # u => s \in sessions'
                      /\ \A i \in issued :
                            i.userId = u
                               => \E r \in revoked' : r.rt = i.refreshToken]_vars
    /\ [][\A p \in Procs :
            ( /\ procs[p].pc \in {"refreshFind", "authFindSession"}
              /\ Steps(p)
              /\ \E r \in revoked : r.rt = procs[p].rt /\ r.by = "reset" )
               => procs'[p].pc = "done" /\ ~procs'[p].res.ok]_vars

\* C14 witness: after a reset a refresh token of the account was refused,
\* and the session of the other account is still there
C14_Witness ==
    \E p, q \in Procs, r \in revoked, s \in sessions :
       /\ r.by = "reset"
       /\ procs[p].op = "reset" /\ procs[p].pc = "done" /\ procs[p].res.ok
       /\ procs[q].op \in {"refresh", "protected"} /\ procs[q].pc = "done"
       /\ procs[q].rt = r.rt /\ ~procs[q].res.ok
       /\ \A i \in issued : i.refreshToken = r.rt => s.userId # i.userId

----------------------------------------------------------------------------
(* Claims on the profile update, the registration and the provider login.  *)

\* the account a finished or running request of slot p authenticated as
Account(p) == {i.userId : i \in {j \in issued : j.refreshToken = procs[p].rt}}

\* C16: an updateProfile whose verification email is not sent runs the
\* rollback; the rollback on the account stores pendingEmail,
\* verificationToken and verificationExpires as null, and the call rejects
\* with the error of sendEmail.
C16_FailedSendRollsBack ==
    /\ [][\A p \in Procs :
            ( /\ procs[p].pc = "profileEmail" /\ Steps(p)
              /\ procs[p].user.id \in DOMAIN users
              /\ mailbox' = mailbox )
               => procs'[p].pc = "profileRollback"]_vars
    /\ [][\A p \in Procs :
            ( /\ procs[p].pc = "profileRollback" /\ Steps(p)
              /\ procs[p].user.id \in DOMAIN users )
               => LET e == users'[procs[p].user.id].emailInfo
                  IN  /\ procs'[p].pc = "done"
                      /\ procs'[p].res = throwError("Failed to send email", "500")
                      /\ e.pendingEmail = "none"
                      /\ e.verificationToken = NoHash
                      /\ e.verificationExpires = NoTime]_vars

\* C16 witness: an updateProfile was rejected with the email error and the
\* account has no pending email and no verification token
C16_Witness ==
    \E p \in Procs : \E u \in Account(p) :
       /\ procs[p].op = "updateProfile" /\ procs[p].pc = "done"
       /\ procs[p].res.msg = "Failed to send email"
       /\ u \in DOMAIN users
       /\ users[u].emailInfo.pendingEmail = "none"
       /\ users[u].emailInfo.verificationToken = NoHash
       /\ users[u].emailInfo.verificationExpires = NoTime

C18_PendingEmailNotConfirmedElsewhere ==
    \A u, v \in DOMAIN users :
       ( /\ u # v
         /\ users[u].emailInfo.pendingEmail # "none"
         /\ users[v].emailInfo.isVerified )
          => users[v].email # users[u].emailInfo.pendingEmail

\* C19: in every reachable state no two accounts have the same email, and
\* the update of a verifyEmail whose pendingEmail is the email of a
\* different account promotes nothing: the call fails with Conflict(409)
\* and no account changes.
C19_OneAccountPerEmail ==
    /\ [](\A u, v \in DOMAIN users : users[u].email = users[v].email => u = v)
    /\ [][\A p \in Procs :
            ( /\ procs[p].pc \in {"verifyTaken", "verifyUpdate"} /\ Steps(p)
              /\ procs[p].user.emailInfo.pendingEmail # "none"
              /\ \E v \in DOMAIN users \ {procs[p].user.id} :
                    users[v].email = procs[p].user.emailInfo.pendingEmail )
               => /\ procs'[p].pc = "done"
                  /\ procs'[p].res.code = "409"
                  /\ users' = users]_vars

\* a verified account holds the email or the phone of the register in slot p
VerifiedHolder(p) ==
    \E v \in DOMAIN users :
       /\ users[v].emailInfo.isVerified
       /\ \/ users[v].email = procs[p].email
          \/ procs[p].phone # "none" /\ users[v].phone = procs[p].phone

\* C20: a register whose email or phone is held by a verified account
\* fails at its check with Conflict(409), and no step of it creates,
\* deletes or modifies an account.
C20_RegisterConflict ==
    [][\A p \in Procs :
         ( /\ procs[p].op = "register" /\ Steps(p)
           /\ procs[p].pc \in {"registerCheck", "registerDelete", "registerCreate"}
           /\ VerifiedHolder(p) )
            => /\ users' = users
               /\ procs[p].pc = "registerCheck"
                     => procs'[p].pc = "done" /\ procs'[p].res.code = "409"]_vars

\* C21: an account that leaves the collection was unverified in the state
\* before; a cleanup of register or updateProfile whose account is verified
\* by then (or gone) deletes nothing and fails with NotFound(404), and one
\* whose account is still unverified removes that account and no other.
C21_VerifiedNeverDeleted ==
    /\ [][\A u \in DOMAIN users :
            u \notin DOMAIN users' => ~users[u].emailInfo.isVerified]_vars
    /\ [][\A p \in Procs :
            (procs[p].pc \in {"registerDelete", "profileDelete"} /\ Steps(p))
               => LET id == procs[p].other
                  IN  IF id \in DOMAIN users /\ ~users[id].emailInfo.isVerified
                      THEN DOMAIN users' = DOMAIN users \ {id}
                      ELSE /\ users' = users
                           /\ procs'[p].pc = "done"
                           /\ procs'[p].res = throwError(
                                 "User not found or already verified", "404")]_vars

\* C21 witness: the registration of b@x was verified, or verified by a
\* password reset, while a cleanup was about to delete it: the cleanup
\* failed with 404 and the account is there, verified
C21_Witness ==
    \E p, q \in Procs :
       /\ procs[p].op \in {"register", "updateProfile"}
       /\ procs[p].pc = "done" /\ procs[p].res.code = "404"
       /\ procs[q].op \in {"verify", "reset"} /\ procs[q].token \in {2, 4}
       /\ "u2" \in DOMAIN users
       /\ users["u2"].emailInfo.isVerified

\* C22: the account a register creates is unverified and holds the hash of
\* a token never issued before, with its expiry; the update of a
\* verifyEmail stores the account as verified, and the call is newly
\* verified (it goes on to issue a token pair) exactly when the account it
\* read was unverified, which is the stored state when no other request
\* wrote the account since; a verifyEmail issues a token pair in that step
\* and in no other.
C22_NewlyVerified ==
    /\ [][\A p \in Procs :
            ( /\ procs[p].pc = "registerCreate" /\ Steps(p)
              /\ procs'[p].res.ok )
               => \E u \in DOMAIN users' \ DOMAIN users :
                     /\ DOMAIN users' = DOMAIN users \cup {u}
                     /\ users'[u].email = procs[p].email
                     /\ ~users'[u].emailInfo.isVerified
                     /\ users'[u].emailInfo.verificationToken
                           = hashData(nextToken)
                     /\ users'[u].emailInfo.verificationExpires
                           = now + verificationExpires
                     /\ \A m \in mailbox : m.token # nextToken
                     /\ \A v \in DOMAIN users :
                           users[v].emailInfo.verificationToken
                              # hashData(nextToken)]_vars
    /\ [][\A p \in Procs :
            ( /\ procs[p].pc = "verifyUpdate" /\ Steps(p)
              /\ procs'[p].res # UniqueViolation
              /\ procs'[p].res # RecordNotFound )
               => LET doc == procs[p].user
                  IN  /\ users'[doc.id].emailInfo.isVerified
                      /\ procs'[p].pc = "verifyIssue"
                            <=> ~doc.emailInfo.isVerified
                      /\ users[doc.id].emailInfo = doc.emailInfo
                            => ( procs'[p].pc = "verifyIssue"
                                   <=> ~users[doc.id].emailInfo.isVerified )
                      /\ procs'[p].pc # "verifyIssue"
                            => procs'[p].pc = "done" /\ procs'[p].res.ok]_vars
    /\ [][\A p \in Procs :
            (procs[p].op = "verify" /\ Steps(p))
               => /\ issued' # issued <=> procs[p].pc = "verifyIssue"
                  /\ procs[p].pc = "verifyIssue"
                        => /\ procs'[p].pc = "done" /\ procs'[p].res.ok
                           /\ \E i \in issued' \ issued :
                                 /\ i.userId = procs[p].user.id
                                 /\ HasSession(i.refreshToken)']_vars

\* C22 witness: an address was registered and verified with the token
\* mailed to it; the account is verified and holds a session
C22_Witness ==
    \E p, q \in Procs : \E u \in DOMAIN users \ {"u1", "u2"} :
       /\ procs[p].op = "register" /\ procs[p].pc = "done" /\ procs[p].res.ok
       /\ Succeeded(q, "verify") /\ procs[q].token >= 6
       /\ users[u].email = procs[p].email
       /\ users[u].emailInfo.isVerified
       /\ users[u].emailInfo.verificationToken = NoHash
       /\ \E i \in issued : i.userId = u /\ HasSession(i.refreshToken)

----------------------------------------------------------------------------
(* Claims on logout, the login code, forgot password and provider login.   *)

\* the sessions stored under the hash of refresh token t
SessionsOf(t) == {s \in sessions : s.refreshToken = hashData(t)}

ValidCode(code) ==
    {r \in loginStore : r.code = code /\ ~(r.expiresAt < now)}

\* C24: an exchangeCode succeeds exactly when the store holds a record of
\* the code that has not expired; it then returns the account and the
\* tokens of that record and the code is no longer stored; a code that is
\* not stored, has expired or was consumed fails with BadRequest(400)
\* 'Invalid or expired login code'; a record leaves the store only by an
\* exchange of its code or expired, a stored code is never stored again,
\* and no two exchanges of one code succeed.
C24_CodeIsSingleUse ==
    /\ [](\A p, q \in Procs :
            ( /\ p # q
              /\ procs[p].op = "exchangeCode" /\ procs[p].res.ok
              /\ procs[q].op = "exchangeCode" /\ procs[q].res.ok )
               => procs[p].code # procs[q].code)
    /\ [][\A p \in Procs :
            (procs'[p].op = "exchangeCode" /\ Steps(p))
               => LET code == procs'[p].code
                      res == procs'[p].res
                  IN  /\ procs'[p].pc = "done"
                      /\ res.ok <=> ValidCode(code) # {}
                      /\ res.ok
                            => /\ \E r \in ValidCode(code) :
                                    /\ procs'[p].rt = r.tokens.refreshToken
                                    /\ procs'[p].email = r.user.email
                               /\ \A r \in loginStore' : r.code # code
                      /\ ~res.ok => res.code = "400"
                      /\ (~res.ok /\ code # NoCode)
                            => res = throwError("Invalid or expired login code",
                                                "400")
                      /\ \A r \in loginStore :
                            r.code # code => r \in loginStore']_vars
    /\ [][ /\ \A r \in loginStore' \ loginStore :
                /\ r.code >= nextToken /\ r.code < nextToken'
                /\ r.expiresAt = now + loginCodeExpiry
           /\ \A r \in loginStore \ loginStore' :
                \/ r.expiresAt < now
                \/ \E p \in Procs :
                      /\ procs'[p].op = "exchangeCode" /\ Steps(p)
                      /\ procs'[p].code = r.code ]_vars

\* C24 witness: the code of a provider login was exchanged, and a second
\* exchange of the same code was refused
C24_Witness ==
    \E p, q \in Procs :
       /\ procs[p].op = "exchangeCode" /\ procs[p].res.ok
       /\ procs[q].op = "exchangeCode" /\ ~procs[q].res.ok
       /\ procs[q].code = procs[p].code
       /\ procs[q].res.msg = "Invalid or expired login code"
       /\ \E i \in issued : i.refreshToken = procs[p].rt

\* C25: every forgot-password request ends with the same success answer,
\* whether an account has the email or not and whatever the outcome of the
\* email; for an email of no account no step of it changes an account or
\* sends an email.
C25_ForgotAnswersTheSame ==
    [][\A p \in Procs :
         (procs[p].op = "forgot" /\ Steps(p))
            => /\ procs'[p].pc = "done"
                     => procs'[p].res
                           = Success("If an account with that email exists")
               /\ Holders(procs[p].email) = {}
                     => users' = users /\ mailbox' = mailbox]_vars

\* C26: the lookup of a provider login is by email alone: when an account
\* has the email it is returned as stored and neither the lookup nor the
\* rest of the callback writes any account; when none has it, the create
\* adds one account, verified, with the provider, without a password hash,
\* unlocked with a count of 0 and lastLoginAt the time of the create, and
\* changes no other account.
C26_OAuthResolve ==
    /\ [][\A p \in Procs :
            (procs[p].pc = "oauthFind" /\ Steps(p))
               => /\ users' = users
                  /\ IF Holders(procs[p].email) = {}
                     THEN procs'[p].pc = "oauthCreate"
                     ELSE /\ procs'[p].pc = "oauthIssue"
                          /\ \E u \in Holders(procs[p].email) :
                                procs'[p].user = users[u]]_vars
    /\ [][\A p \in Procs :
            (procs[p].pc = "oauthIssue" /\ Steps(p))
               => users' = users /\ procs'[p].res.ok]_vars
    /\ [][\A p \in Procs :
            ( /\ procs[p].pc = "oauthCreate" /\ Steps(p)
              /\ Holders(procs[p].email) = {} )
               => \E u \in DOMAIN users' \ DOMAIN users :
                     /\ DOMAIN users' = DOMAIN users \cup {u}
                     /\ \A v \in DOMAIN users : users'[v] = users[v]
                     /\ procs'[p].pc = "oauthIssue"
                     /\ procs'[p].user = users'[u]
                     /\ users'[u].email = procs[p].email
                     /\ users'[u].emailInfo.isVerified
                     /\ users'[u].emailInfo.provider = procs[p].provider
                     /\ users'[u].passwordInfo.hash = NoHash
                     /\ users'[u].lockoutInfo =
                           [isLocked |-> FALSE, lockedUntil |-> NoTime,
                            failedAttemptCount |-> 0]
                     /\ users'[u].lastLoginAt = now]_vars

\* C26 witness: a provider login with the email of the unverified
\* registration gave it a session and left it unverified with its password,
\* and one with a new email created a verified account without a password
C26_Witness ==
    \E p, q \in Procs : \E u \in DOMAIN users \ {"u1", "u2"} :
       /\ procs[p].op = "oauth" /\ procs[p].pc = "done" /\ procs[p].res.ok
       /\ procs[p].email = "b@x"
       /\ "u2" \in DOMAIN users
       /\ ~users["u2"].emailInfo.isVerified
       /\ users["u2"].emailInfo.provider = "none"
       /\ users["u2"].passwordInfo.hash = hashPassword("pw1")
       /\ \E i \in issued : i.userId = "u2"
       /\ procs[q].op = "oauth" /\ procs[q].pc = "done" /\ procs[q].res.ok
       /\ procs[q].email = "c@x"
       /\ users[u].email = "c@x"
       /\ users[u].emailInfo.isVerified
       /\ users[u].passwordInfo.hash = NoHash

\* C27: once isVerified of an account is true it is true in every later
\* state in which the account exists.
C27_VerifiedIsOneWay ==
    [][\A u \in DOMAIN users \cap DOMAIN users' :
         users[u].emailInfo.isVerified => users'[u].emailInfo.isVerified]_vars

----------------------------------------------------------------------------
(* Claims on the lockout record, authenticate and the access token.        *)

\* C28: in every reachable state the lockout record of every account is
\* consistent: a locked record has a lockedUntil, and a record is locked
\* exactly when its count is at least maxLoginAttempts; a write that
\* leaves a record locked which was not, or with another lockedUntil,
\* sets lockedUntil after the time of the write.
C28_LockoutConsistent ==
    /\ [](\A u \in DOMAIN users :
            LET lockout == users[u].lockoutInfo
            IN  /\ lockout.isLocked => lockout.lockedUntil # NoTime
                /\ lockout.isLocked
                      <=> lockout.failedAttemptCount >= maxLoginAttempts)
    /\ [][\A u \in DOMAIN users \cap DOMAIN users' :
            ( /\ users'[u].lockoutInfo # users[u].lockoutInfo
              /\ users'[u].lockoutInfo.isLocked )
               => users'[u].lockoutInfo.lockedUntil > now]_vars

\* C28 witness: after the lock of the fifth wrong password had expired, a
\* sixth wrong password locked the account again
C28_Witness ==
    \E p \in Procs :
       /\ procs[p].op = "login" /\ procs[p].pc = "done"
       /\ users["u1"].lockoutInfo.isLocked
       /\ users["u1"].lockoutInfo.failedAttemptCount = maxLoginAttempts + 1
       /\ users["u1"].lockoutInfo.lockedUntil > now

\* C29: the user lookup of authenticate, reached with a valid access token
\* and a refresh token of an active session, ends the request with
\* Locked(423) exactly when the account of the access token has isLocked
\* set and a lockedUntil after now; otherwise, and so once the lock has
\* expired, the request goes on to its handler.
C29_AuthenticateRejectsLocked ==
    [][\A p \in Procs :
         ( /\ procs[p].pc = "authFindUser" /\ Steps(p)
           /\ procs[p].at.userId \in DOMAIN users )
            => LET lockout == users[procs[p].at.userId].lockoutInfo
               IN  IF /\ lockout.isLocked
                      /\ lockout.lockedUntil # NoTime
                      /\ lockout.lockedUntil > now
                   THEN /\ procs'[p].pc = "done"
                        /\ procs'[p].res = throwError(
                              "Account is locked due to multiple failed login attempts",
                              "423")
                   ELSE \/ procs'[p].pc = "done" /\ procs'[p].res.ok
                        \/ /\ procs'[p].pc \in {"logout", "logoutAll"}
                           /\ procs'[p].user = users[procs[p].at.userId]]_vars

\* C29 witness: a request of the locked account was refused with 423, and
\* after the lock expired a request of the account, whose record still
\* says isLocked, got its profile
C29_Witness ==
    \E p, q \in Procs :
       /\ DOMAIN users = UserIds
       /\ procs[p].pc = "done" /\ procs[p].res.code = "423"
       /\ procs[q].pc = "done" /\ procs[q].op = "getProfile"
       /\ procs[q].res.ok
       /\ Account(q) = {"u2"}
       /\ users["u2"].lockoutInfo.isLocked
       /\ users["u2"].lockoutInfo.lockedUntil <= now

\* C30: every request that verifyAccessToken refuses is refused with one
\* and the same error: the error for an expired token is the error for a
\* token with a wrong signature, issuer or audience.
C30_OneErrorForEveryFailure ==
    [][\A p \in Procs :
         ( /\ Steps(p)
           /\ procs[p].pc \in {"idle", "done"}
           /\ procs'[p].op = "protected" /\ procs'[p].pc = "done" )
            => procs'[p].res = verifyAccessToken(ForgedAccessToken, now)]_vars

----------------------------------------------------------------------------
(* Claims on the error handler, the provider login and registration.       *)

\* C31: an error that is not operational reaches the client only as code
\* 500 with the message 'Internal Server Error', whatever the error object
\* carries; an operational error reaches the client with its own message
\* and code.
C31_UnexpectedErrorIsGeneric ==
    \A p \in Procs :
       (procs[p].pc = "done" /\ ~procs[p].res.ok) =>
          LET err == procs[p].res
              sent == errorHandler(err)
          IN  IF err.isOperational
              THEN sent.code = err.code /\ sent.msg = err.msg
              ELSE sent.code = "500" /\ sent.msg = "Internal Server Error"

\* C32: GitHub login, the profile carrying no email: the entry flagged
\* primary in the fetched list is used, else the first entry; whenever no
\* email can be obtained, because the call fails or the list is empty, the
\* login fails with code 400 and no account is created.
C32_GithubEmail ==
    [][\A p \in Procs :
         (procs[p].pc = "githubFetch" /\ Steps(p)) =>
            LET got == procs'[p].github
                flagged == {i \in DOMAIN got.emails : got.emails[i].primary}
            IN  IF ~got.ok \/ got.emails = <<>>
                THEN /\ procs'[p].pc = "done"
                     /\ ~procs'[p].res.ok
                     /\ procs'[p].res.code = "400"
                     /\ users' = users
                ELSE got.named =>
                       /\ procs'[p].pc = "oauthFind"
                       /\ \E i \in DOMAIN got.emails :
                             /\ procs'[p].email = got.emails[i].email
                             /\ IF flagged = {} THEN i = 1
                                ELSE i \in flagged]_vars

\* C33: a failure to send the verification email during register is not
\* fatal: the account is still created, unverified and with the hash and
\* the expiry of its verification token stored, and the caller receives the
\* success response of the registration.
C33_SendFailureIsNotFatal ==
    [][\A p \in Procs :
         ( /\ procs[p].pc = "registerCreate" /\ Steps(p)
           /\ ~Conflicts(users, "none", procs[p].email, procs[p].phone)
           /\ mailbox' = mailbox )
            => /\ procs'[p].pc = "done"
               /\ procs'[p].res = Success("User registered successfully")
               /\ \E id \in DOMAIN users' \ DOMAIN users :
                     /\ users'[id].email = procs[p].email
                     /\ ~users'[id].emailInfo.isVerified
                     /\ users'[id].emailInfo.verificationToken
                           = hashData(nextToken)
                     /\ users'[id].emailInfo.verificationExpires
                           = now + verificationExpires
                     /\ users'[id].passwordInfo.hash
                           = hashPassword(procs[p].password)]_vars

\* a registration answered with success whose verification email never
\* arrived: the account is there, unverified, its token stored
C33_Witness ==
    \E p \in Procs, id \in DOMAIN users :
       /\ procs[p].op = "register" /\ procs[p].pc = "done" /\ procs[p].res.ok
       /\ users[id].email = procs[p].email
       /\ ~users[id].emailInfo.isVerified
       /\ users[id].emailInfo.verificationToken # NoHash
       /\ \A m \in mailbox :
             hashData(m.token) # users[id].emailInfo.verificationToken

----------------------------------------------------------------------------
(* Claims on the owner of a session, on verification and on the tokens.    *)

\* C34: authenticate lets a request past its session check only when the
\* session matched by the presented refresh token is owned by the account
\* the access token names: an access token of one account together with a
\* refresh token of another account is rejected.
C34_SessionOwnedByTokenAccount ==
    [][\A p \in Procs :
         ( /\ procs[p].pc = "authFindSession" /\ Steps(p)
           /\ procs'[p].pc = "authFindUser" )
            => \E s \in findActiveSession(sessions, procs[p].rt, now) :
                  s.userId = procs[p].at.userId]_vars

\* C35: every session is owned by an account whose email is verified at
\* the moment the session is created: login, the verify-email handler and
\* the callback of a provider never issue a token pair for an account with
\* isVerified = FALSE.
C35_SessionOnlyForVerified ==
    [][\A s \in sessions' \ sessions :
          /\ s.userId \in DOMAIN users
          /\ users[s.userId].emailInfo.isVerified]_vars

\* C36: two concurrent verifyEmail calls with the same valid token for an
\* unverified account: at most one of them gets isNewlyVerified = TRUE from
\* verifyEmailWithToken, so never do two calls with one token both stand
\* before generateTokenPair.
C36_OneNewlyVerified ==
    \A p \in Procs, q \in Procs :
       ( /\ p # q
         /\ procs[p].op = "verify" /\ procs[q].op = "verify"
         /\ procs[p].token # NoToken /\ procs[p].token = procs[q].token
         /\ procs[p].pc = "verifyIssue" )
          => procs[q].pc # "verifyIssue"

\* the tokens that reset the password of account id, and the tokens that
\* verify an email of it
ResetTokensOf(us, id) ==
    {t \in 1 .. nextToken : id \in findUserByResetToken(us, t, now)}

VerificationTokensOf(us, id) ==
    {t \in 1 .. nextToken : id \in findUserByVerificationToken(us, t, now)}

\* C37: at most one reset token and one verification token per account is
\* valid at any time: the update of a forgot-password request overwrites
\* the stored reset-token hash, so that the tokens emailed earlier no longer
\* reset the password, and the update of an email change overwrites the
\* stored verification-token hash, so that the tokens issued earlier no
\* longer verify.
C37_OneValidTokenPerAccount ==
    /\ [](\A id \in DOMAIN users :
             /\ Cardinality(ResetTokensOf(users, id)) <= 1
             /\ Cardinality(VerificationTokensOf(users, id)) <= 1)
    /\ [][\A p \in Procs :
            /\ ( /\ procs[p].pc = "forgotUpdate" /\ Steps(p)
                 /\ nextToken' # nextToken )
                  => /\ ResetTokensOf(users', procs[p].user.id) = {nextToken}
                     /\ \A m \in mailbox :
                           m.token \notin ResetTokensOf(users', procs[p].user.id)
            /\ ( /\ procs[p].pc = "profileEmail" /\ Steps(p)
                 /\ nextToken' # nextToken )
                  => /\ VerificationTokensOf(users', procs[p].user.id)
                           = {nextToken}
                     /\ \A m \in mailbox :
                           m.token \notin
                              VerificationTokensOf(users', procs[p].user.id)
       ]_vars

\* a@x asked for a reset twice and for two changes of its email: the
\* tokens mailed first (3 and 5) are valid no more, the later ones are
C37_Witness ==
    /\ "u1" \in DOMAIN users
    /\ \E t \in ResetTokensOf(users, "u1") : t > 5
    /\ \E t \in VerificationTokensOf(users, "u1") : t > 5
    /\ [to |-> "a@x", token |-> 3] \in mailbox
    /\ ResetTokensOf(users, "u1") \cap {3} = {}
    /\ VerificationTokensOf(users, "u1") \cap {5} = {}

----------------------------------------------------------------------------
(* Claims on the lock after its expiry, the login store and the login of   *)
(* an account of a provider.                                               *)

\* the lock of account u has expired and no login has succeeded since: the
\* flag and the count of maxLoginAttempts are still stored
ExpiredLock(u) ==
    /\ users[u].lockoutInfo.isLocked
    /\ users[u].lockoutInfo.lockedUntil # NoTime
    /\ users[u].lockoutInfo.lockedUntil <= now
    /\ users[u].lockoutInfo.failedAttemptCount = maxLoginAttempts

\* C38: one request at a time: the expiry of a lock does not reset
\* failedAttemptCount; after lockedUntil has passed without a successful
\* login the next wrong password locks the account again at once (count
\* maxLoginAttempts + 1, isLocked, lockedUntil = now + loginLockTime),
\* whereas the correct password succeeds and resets the lockout record to
\* isLocked FALSE, lockedUntil null, failedAttemptCount 0.
C38_ExpiredLockKeepsCount ==
    [][/\ now' # now => users' = users
       /\ \A p \in Procs :
            /\ ( /\ procs[p].pc = "loginFind" /\ Steps(p)
                 /\ \E u \in Holders(procs[p].email) :
                       ExpiredLock(u) /\ users[u].emailInfo.isVerified )
                  => \E u \in Holders(procs[p].email) :
                        procs'[p].pc =
                           IF users[u].passwordInfo.hash
                                 = hashPassword(procs[p].password)
                           THEN "loginReset" ELSE "loginIncrement"
            /\ ( /\ procs[p].pc = "loginIncrement" /\ Steps(p)
                 /\ ExpiredLock(procs[p].user.id) )
                  => /\ users'[procs[p].user.id].lockoutInfo =
                           [failedAttemptCount |-> maxLoginAttempts + 1,
                            isLocked |-> TRUE,
                            lockedUntil |-> now + loginLockTime]
                     /\ procs'[p].pc = "done"
                     /\ procs'[p].res.code = "401"
            /\ ( /\ procs[p].pc = "loginReset" /\ Steps(p)
                 /\ ExpiredLock(procs[p].user.id) )
                  => /\ users'[procs[p].user.id].lockoutInfo =
                           [failedAttemptCount |-> 0, isLocked |-> FALSE,
                            lockedUntil |-> NoTime]
                     /\ procs'[p].pc = "loginStamp"
            /\ (procs[p].pc = "loginStamp" /\ Steps(p))
                  => procs'[p].pc = "loginIssue"
            /\ (procs[p].pc = "loginIssue" /\ Steps(p))
                  => /\ procs'[p].res = Success("Login successful")
                     /\ \E s \in sessions' \ sessions :
                           s.userId = procs[p].user.id]_vars

\* the sixth wrong password, after the lock of the fifth had expired, has
\* locked the account again
C38_Witness ==
    \E p \in Procs, u \in DOMAIN users :
       /\ procs[p].op = "login" /\ procs[p].pc = "done"
       /\ procs[p].res.code = "401"
       /\ users[u].email = procs[p].email
       /\ now > 0
       /\ users[u].lockoutInfo.failedAttemptCount = maxLoginAttempts + 1
       /\ users[u].lockoutInfo.isLocked
       /\ users[u].lockoutInfo.lockedUntil = now + loginLockTime

\* a record of the login store is stored under code
InStore(code) == \E r \in loginStore : r.code = code

\* the codes a provider login can generate
LoginCodes == 1 .. (3 * MaxAccountRequests)

\* C39: every record of the login store is removed in the end, exchanged or
\* not, the timer of cleanup firing again and again; and a record that
\* leaves the store without having expired (expiresAt < now) leaves it by
\* the exchange of its code: neither cleanup nor a lookup removes a record
\* that has not expired.
C39_EveryCodeIsRemoved ==
    /\ [][\A r \in loginStore \ loginStore' :
             \/ r.expiresAt < now
             \/ \E p \in Procs :
                   /\ Steps(p)
                   /\ procs'[p].op = "exchangeCode"
                   /\ procs'[p].code = r.code
                   /\ procs'[p].res.ok]_vars
    /\ [](\A code \in LoginCodes : InStore(code) => <>(~InStore(code)))

\* one provider login was the only request: its code was stored, nobody
\* looked it up, and after its expiry the record is gone
C39_Witness ==
    /\ budget = MaxAccountRequests - 1
    /\ \E p \in Procs :
          /\ procs[p].op = "oauth" /\ procs[p].pc = "done"
          /\ procs[p].code # NoCode
          /\ ~InStore(procs[p].code)
    /\ loginStore = {}

\* C40, as claimed: a password login for an account that has a provider and
\* no password hash goes on to incrementFailedLoginAttempts, which adds one
\* to the failedAttemptCount of the account.
C40_OAuthOnlyAttemptCounts ==
    [][\A p \in Procs :
         ( /\ procs[p].pc = "loginFind" /\ Steps(p)
           /\ \E u \in Holders(procs[p].email) : OAuthOnly(users[u]) )
            => /\ procs'[p].pc = "loginIncrement"
               /\ procs'[p].user.id \in Holders(procs[p].email)]_vars

\* C40, amended: a password login for an account that has a provider and
\* no password hash leaves the failedAttemptCount of the account as it is:
\* the check for a social account comes first, before the lock check and
\* the comparison of the password, and answers 403 without a write.
C40_OAuthOnlyAttemptNotCounted ==
    [][\A p \in Procs :
         ( /\ procs[p].pc = "loginFind" /\ Steps(p)
           /\ \E u \in Holders(procs[p].email) : OAuthOnly(users[u]) )
            => /\ procs'[p].pc = "done"
               /\ procs'[p].res =
                     throwError("You signed in with a social account", "403")
               /\ \A u \in Holders(procs[p].email) :
                     /\ u \in DOMAIN users'
                     /\ users'[u].lockoutInfo.failedAttemptCount
                           = users[u].lockoutInfo.failedAttemptCount]_vars

\* a login with a password for the account of a provider was answered 403,
\* and the count of the account is still 0
C40_Witness ==
    \E p \in Procs, u \in DOMAIN users :
       /\ procs[p].op = "login" /\ procs[p].pc = "done"
       /\ procs[p].res = throwError("You signed in with a social account", "403")
       /\ procs[p].password \in Passwords
       /\ users[u].email = procs[p].email
       /\ OAuthOnly(users[u])
       /\ users[u].lockoutInfo.failedAttemptCount = 0

====
